---- MODULE Spec2Model ----
(***************************************************************************)
(* Fuel-price reporting form: the image capture pipeline (ImageCapture),   *)
(* the date validator (imageMetadata), the hybrid blob store (imagesDB)    *)
(* and the application state store (localStorage), as a state machine.     *)
(*                                                                         *)
(* Representation of JavaScript values:                                    *)
(*   null / undefined            None  == <<>>                             *)
(*   a present value x           Some(x) == <<x>>                          *)
(*   byte content                a sequence of byte values                 *)
(*   base64 text                 a sequence of base64 symbols, "" == <<>>  *)
(*   JSON text of a value v      <<"json", v>>                             *)
(*   text that does not parse    <<"corrupt">>                             *)
(*   a Date                      <<"date", t>>, t in hours; Invalid Date   *)
(*                               is <<"date", NaN>>                        *)
(***************************************************************************)
EXTENDS Integers, Sequences, FiniteSets, TLC

VARIABLES
  local,      \* localStorage: key -> None | Some(text)
  session,    \* sessionStorage: key -> None | Some(text)
  comp,       \* per capture unit: the React state of the mounted ImageCapture
  pipe,       \* per capture unit: the handlePick call in flight, if any
  now,        \* the wall clock, in hours
  tab,        \* the period whose form is mounted (the active tab)
  actions,    \* number of user actions taken
  faults,     \* number of operations in which a storage write or access threw
  call,       \* the last direct call of the blob store API and its outcome
  calls,      \* number of direct calls of the blob store API
  form,       \* the React state of the mounted PriceForm, and its request in flight
  hyd         \* per capture unit: the run of the hydrate effect that is past its
              \* `active` check, if any

vars ==
  <<local, session, comp, pipe, now, tab, actions, faults, call, calls, form,
    hyd>>

----------------------------------------------------------------------------
\* Bounds of the model

\* competitor slots the configuration dialog offers (the program offers 10)
MaxCount == 2
\* user actions (picks, clears, edits, configuration changes, tab switches)
\* per behaviour
MaxActions == 2
\* operations per behaviour in which storage throws
MaxFaults == 1
\* direct calls of the blob store API, or of a helper, per behaviour
MaxCalls == 1
\* pieces of a text typed into a price field
MaxTyped == 5
\* direct calls of the application state store per behaviour
MaxAppCalls == 3

----------------------------------------------------------------------------
\* Values

None == <<>>
Some(x) == <<x>>

Periods == {"manha", "tarde"}

CompetitorIds ==
  << "competitor_1", "competitor_2", "competitor_3", "competitor_4",
     "competitor_5", "competitor_6", "competitor_7", "competitor_8",
     "competitor_9", "competitor_10", "competitor_11", "competitor_12",
     "competitor_13", "competitor_14", "competitor_15", "competitor_16",
     "competitor_17", "competitor_18", "competitor_19", "competitor_20" >>

\* stationId.startsWith("competitor_")
StartsWithCompetitor(id) == \E i \in DOMAIN CompetitorIds : CompetitorIds[i] = id

stationIdForIndex(index) ==
  IF index = 0 THEN "reference" ELSE CompetitorIds[index]

defaultNameForIndex(index) ==
  IF index = 0 THEN <<"Posto Natureza: ">> ELSE <<"Posto Concorrente ", index, ": ">>

\* the station ids the model can make visible
StationIds == { stationIdForIndex(i) : i \in 0..MaxCount }

\* a capture unit is one (period, station) pair
UnitKeys == Periods \X StationIds

imageKey(period, stationId) == <<"img", period, stationId>>
metadataKey(period, stationId) == <<"meta", period, stationId>>
\* key.replace('img:', 'meta:')
MetaKeyOf(key) == IF key[1] = "img" THEN <<"meta", key[2], key[3]>> ELSE key

STORAGE_KEY == <<"price_registry_app_state", "", "">>

ImgKeys == { imageKey(k[1], k[2]) : k \in UnitKeys }
MetaKeys == { MetaKeyOf(k) : k \in ImgKeys }
Keys == ImgKeys \cup MetaKeys \cup {STORAGE_KEY}

\* key.startsWith('img:') / key.startsWith('meta:')
IsImgKey(key) == key[1] = "img"
IsMetaKey(key) == key[1] = "meta"

----------------------------------------------------------------------------
\* Encoding of bytes (imagesDB.ts: blobToDataURL, dataURLToBase64, fetch)

ByteValues == {1, 2}
Base64Symbol(b) == IF b = 1 THEN "AQ" ELSE "Ag"
Base64Symbols == { Base64Symbol(b) : b \in ByteValues }
Base64Byte(s) == CHOOSE b \in ByteValues : Base64Symbol(b) = s

Base64Encode(bytes) == [i \in DOMAIN bytes |-> Base64Symbol(bytes[i])]
Base64Decode(text) == [i \in DOMAIN text |-> Base64Byte(text[i])]
IsBase64(text) == \A i \in DOMAIN text : text[i] \in Base64Symbols

\* FileReader.readAsDataURL: "data:<type>;base64,<payload>"
blobToDataURL(blob) == [mime |-> blob.type, payload |-> Base64Encode(blob.bytes)]

ImageMimes == {"image/jpeg", "image/png", "image/webp"}

\* dataURL.replace(/^data:image\/[a-zA-Z+]+;base64,/, ""): a data URL of
\* another type is returned whole
dataURLToBase64(dataURL) ==
  IF dataURL.mime \in ImageMimes
    THEN dataURL.payload
    ELSE <<"data:", dataURL.mime, ";base64,">> \o dataURL.payload

\* a JavaScript string or null used as a condition: null and "" are falsy
Truthy(x) == x # None /\ x[1] # <<>>

JsonStringify(v) == <<"json", v>>
JsonParses(text) == Len(text) = 2 /\ text[1] = "json"
JsonParse(text) == text[2]

----------------------------------------------------------------------------
\* Capture metadata (ImageCapture.tsx handlePick, localStorage.ts StationData)

MetadataOf(dateTime, device, gps, status, reason) ==
  [ dateTime |-> dateTime, make |-> device, model |-> device,
    software |-> device, gps |-> gps,
    validationStatus |-> status, validationReason |-> reason ]

\* let metadata: any = {}
EmptyMetadata == MetadataOf(None, None, None, None, None)

----------------------------------------------------------------------------
\* Hybrid blob store (imagesDB.ts)

setItem(store, key, text) == [store EXCEPT ![key] = Some(text)]
removeItem(store, key) == [store EXCEPT ![key] = None]

\* which of the four setItem calls of one save throws (quota exceeded): the
\* first throw of a tier ends the writes to it, and the secondary tier is
\* written only after a throw of the primary tier
SaveFailures ==
  { f \in [li : BOOLEAN, lm : BOOLEAN, si : BOOLEAN, sm : BOOLEAN] :
      /\ ~(f.li /\ f.lm)
      /\ ~(f.si /\ f.sm)
      /\ (f.si \/ f.sm) => (f.li \/ f.lm) }
NoSaveFailure == [li |-> FALSE, lm |-> FALSE, si |-> FALSE, sm |-> FALSE]
\* which tier throws on access
TierFailures == [l : BOOLEAN, s : BOOLEAN]
NoTierFailure == [l |-> FALSE, s |-> FALSE]

\* store.setItem(key, base64); if (metadata) store.setItem(metaKey, json)
\* The first write stays when the second throws.
WriteImageAndMeta(store, key, base64, metadata, failImg, failMeta) ==
  IF failImg
    THEN [threw |-> TRUE, store |-> store]
    ELSE LET s1 == setItem(store, key, base64)
         IN IF metadata = None
              THEN [threw |-> FALSE, store |-> s1]
              ELSE IF failMeta
                THEN [threw |-> TRUE, store |-> s1]
                ELSE [threw |-> FALSE,
                      store |-> setItem(s1, MetaKeyOf(key), JsonStringify(metadata[1]))]

saveImageBlob_NoFallback(loc, ses, key, blob, metadata, fail) ==
  IF blob = None
    THEN [raised |-> TRUE, fallback |-> FALSE, local |-> loc, session |-> ses]
    ELSE LET base64 == dataURLToBase64(blobToDataURL(blob[1]))
             primary == WriteImageAndMeta(loc, key, base64, metadata, fail.li, fail.lm)
         IN [raised |-> primary.threw, fallback |-> FALSE,
             local |-> primary.store, session |-> ses]

saveImageBlob_NeverRaises(loc, ses, key, blob, metadata, fail) ==
  IF blob = None
    THEN [raised |-> FALSE, fallback |-> FALSE, local |-> loc, session |-> ses]
    ELSE LET base64 == dataURLToBase64(blobToDataURL(blob[1]))
             primary == WriteImageAndMeta(loc, key, base64, metadata, fail.li, fail.lm)
         IN IF ~primary.threw
              THEN [raised |-> FALSE, fallback |-> FALSE,
                    local |-> primary.store, session |-> ses]
              ELSE LET secondary ==
                         WriteImageAndMeta(ses, key, base64, metadata, fail.si, fail.sm)
                   IN [raised |-> FALSE, fallback |-> TRUE,
                       local |-> primary.store, session |-> secondary.store]

\* saveImageBlob(key, blob, metadata?): blob is None when the codec handed
\* over null, which makes blobToDataURL throw before any write.
saveImageBlob(loc, ses, key, blob, metadata, fail) ==
  IF blob = None
    THEN [raised |-> TRUE, fallback |-> FALSE, local |-> loc, session |-> ses]
    ELSE LET base64 == dataURLToBase64(blobToDataURL(blob[1]))
             primary == WriteImageAndMeta(loc, key, base64, metadata, fail.li, fail.lm)
         IN IF ~primary.threw
              THEN [raised |-> FALSE, fallback |-> FALSE,
                    local |-> primary.store, session |-> ses]
              ELSE LET secondary ==
                         WriteImageAndMeta(ses, key, base64, metadata, fail.si, fail.sm)
                   IN [raised |-> secondary.threw, fallback |-> TRUE,
                       local |-> primary.store, session |-> secondary.store]

\* localStorage.getItem(key) || sessionStorage.getItem(key): the secondary
\* tier is read only when the primary value is null or "".
ReadBothTiers(loc, ses, key, fail) ==
  IF fail.l THEN [threw |-> TRUE, value |-> None]
  ELSE IF Truthy(loc[key]) THEN [threw |-> FALSE, value |-> loc[key]]
  ELSE IF fail.s THEN [threw |-> TRUE, value |-> None]
  ELSE [threw |-> FALSE, value |-> ses[key]]

\* fetch("data:image/jpeg;base64," + base64).blob()
FetchJpeg(base64) == [type |-> "image/jpeg", bytes |-> Base64Decode(base64)]

getImageBlob_SecondaryFirst(loc, ses, key, fail) ==
  LET read == ReadBothTiers(ses, loc, key, [l |-> fail.s, s |-> fail.l])
  IN IF read.threw \/ ~Truthy(read.value) \/ ~IsBase64(read.value[1])
       THEN [raised |-> FALSE, value |-> None]
       ELSE [raised |-> FALSE, value |-> Some(FetchJpeg(read.value[1]))]

\* getImageBlob(key): every throw inside is caught and answered undefined
getImageBlob(loc, ses, key, fail) ==
  LET read == ReadBothTiers(loc, ses, key, fail)
  IN IF read.threw THEN [raised |-> FALSE, value |-> None]
     ELSE IF ~Truthy(read.value) THEN [raised |-> FALSE, value |-> None]
     ELSE IF ~IsBase64(read.value[1]) THEN [raised |-> FALSE, value |-> None]
     ELSE [raised |-> FALSE, value |-> Some(FetchJpeg(read.value[1]))]

\* getImageMetadata(key)
getImageMetadata(loc, ses, key, fail) ==
  LET read == ReadBothTiers(loc, ses, MetaKeyOf(key), fail)
  IN IF read.threw THEN [raised |-> FALSE, value |-> None]
     ELSE IF ~Truthy(read.value) THEN [raised |-> FALSE, value |-> None]
     ELSE IF ~JsonParses(read.value[1]) THEN [raised |-> FALSE, value |-> None]
     ELSE [raised |-> FALSE, value |-> Some(JsonParse(read.value[1]))]

\* removeImageBlob(key): four removeItem calls in one try block, in the order
\* local img, session img, local meta, session meta; the first throw ends it.
removeImageBlob(loc, ses, key, fail) ==
  IF fail.l THEN [raised |-> FALSE, local |-> loc, session |-> ses]
  ELSE IF fail.s
    THEN [raised |-> FALSE, local |-> removeItem(loc, key), session |-> ses]
    ELSE [raised |-> FALSE,
          local |-> removeItem(removeItem(loc, key), MetaKeyOf(key)),
          session |-> removeItem(removeItem(ses, key), MetaKeyOf(key))]

\* the img: and meta: records of one tier removed, every other key kept
ClearTier(store) ==
  [k \in DOMAIN store |-> IF IsImgKey(k) \/ IsMetaKey(k) THEN None ELSE store[k]]

\* clearImageCache(): both tiers in one try block, local first
clearImageCache(loc, ses, fail) ==
  IF fail.l THEN [raised |-> FALSE, local |-> loc, session |-> ses]
  ELSE IF fail.s THEN [raised |-> FALSE, local |-> ClearTier(loc), session |-> ses]
  ELSE [raised |-> FALSE, local |-> ClearTier(loc), session |-> ClearTier(ses)]


----------------------------------------------------------------------------
\* Image files and the metadata extractor (imageMetadata.ts)

\* what exifr.parse does with the file:
\*   "throws"   parsing fails          "none"     no EXIF data (null)
\*   "noDate"   EXIF without any date  "date"     EXIF with a capture date
\*   "invalid"  EXIF whose date text makes new Date(...) an Invalid Date
ExifKinds == {"throws", "none", "noDate", "date", "invalid"}

\* what the image decoder and canvas.toBlob do with the file:
\*   "ok" a JPEG blob, "fail" img.onerror, "null" toBlob hands over null
DecodeKinds == {"ok", "fail", "null"}

NaN == 0 - 1
IsInvalidDate(date) == date[2] = NaN

\* capture times offered to the model, in hours: the last hour of the day
\* before, the first and last hour of the current day, the first hour of the
\* day after
PhotoTimes == {23, 24, 47, 48}
\* the clock when the form is used: the first hour of the current day
NowTimes == {24}

FileOf(exif, ts, image, decode) ==
  [exif |-> exif, ts |-> ts, image |-> image, decode |-> decode]

\* the files offered to the model: every EXIF kind, every capture time, every
\* decoder outcome; the picture taken in the last hour of the day has other
\* pixels than the rest
Files ==
  { FileOf(e, 24, 1, "ok") : e \in ExifKinds \ {"date"} }
  \cup { FileOf("date", t, IF t = 47 THEN 2 ELSE 1, "ok") : t \in PhotoTimes }
  \cup { FileOf("none", 24, 1, d) : d \in {"fail", "null"} }

NoFile == FileOf("none", 24, 1, "ok")

\* the files the user picks: no metadata, metadata without a capture date, a
\* timestamp that is no date, a
\* picture of the day before, a picture of the current day, a picture the
\* decoder refuses, a picture the encoder hands back as null
PickedFiles ==
  { FileOf("none", 24, 1, "ok"), FileOf("noDate", 24, 1, "ok"),
    FileOf("invalid", 24, 1, "ok"),
    FileOf("date", 23, 1, "ok"), FileOf("date", 47, 2, "ok"),
    FileOf("none", 24, 1, "fail"), FileOf("none", 24, 1, "null") }

\* what a call hands its caller when it throws instead of returning
Raised == <<"raised", "raised">>

\* exifr.parse(file, {pick: ...}): the picked tags, undefined, or a throw
exifrParse(file) ==
  CASE file.exif = "throws" -> Raised
    [] file.exif = "none" -> None
    [] file.exif = "noDate" ->
         Some([DateTimeOriginal |-> None, device |-> Some("device"), GPS |-> None])
    [] file.exif = "date" ->
         Some([DateTimeOriginal |-> Some(file.ts), device |-> Some("device"),
               GPS |-> Some("gps")])
    [] file.exif = "invalid" ->
         Some([DateTimeOriginal |-> Some(NaN), device |-> Some("device"),
               GPS |-> None])

extractImageMetadata_Propagates(file) ==
  LET exifData == exifrParse(file)
  IN IF exifData = Raised THEN Raised
     ELSE IF exifData = None THEN None
     ELSE Some([dateTime |-> IF exifData[1].DateTimeOriginal = None THEN None
                             ELSE Some(<<"date", exifData[1].DateTimeOriginal[1]>>),
                device |-> exifData[1].device,
                gps |-> exifData[1].GPS])

\* extractImageMetadata(file): ImageMetadata | null; the catch block answers
\* null for a throw of the parser
extractImageMetadata(file) ==
  LET exifData == exifrParse(file)
  IN IF exifData = Raised THEN None
     ELSE IF exifData = None THEN None
     ELSE Some([dateTime |-> IF exifData[1].DateTimeOriginal = None THEN None
                             ELSE Some(<<"date", exifData[1].DateTimeOriginal[1]>>),
                device |-> exifData[1].device,
                gps |-> exifData[1].GPS])

\* date-fns startOfDay / isToday / format(date, 'dd/MM/yyyy'), in local time
startOfDay(t) == t - (t % 24)
isToday(date, t) ==
  IF IsInvalidDate(date) THEN FALSE ELSE startOfDay(date[2]) = startOfDay(t)
\* format throws a RangeError on an Invalid Date
formatDay(date) ==
  IF IsInvalidDate(date) THEN Raised ELSE <<"dd/MM/yyyy", date[2] \div 24>>

\* Date.prototype.toISOString
toISOString(date) == <<"iso", date[2]>>

ValidationResultOf(isValid, reason, suggestion, metadata, status) ==
  [ isValid |-> isValid, reason |-> reason, suggestion |-> suggestion,
    metadata |-> metadata, status |-> status ]

validateImageDate_WithTolerance(file, stationId, t) ==
  IF stationId = "reference" \/ ~StartsWithCompetitor(stationId)
    THEN ValidationResultOf(TRUE, None, None, None, None)
    ELSE LET metadata == extractImageMetadata(file)
         IN IF metadata = None \/ metadata[1].dateTime = None
              THEN ValidationResultOf(FALSE, Some(<<"Não foi possível verificar a data da imagem">>),
                     Some("Use a câmera para tirar uma foto atual"), None, Some("invalid"))
              ELSE IF IsInvalidDate(metadata[1].dateTime[1])
                     \/ metadata[1].dateTime[1][2] < startOfDay(t) - 24
                     \/ metadata[1].dateTime[1][2] >= startOfDay(t) + 24
                THEN ValidationResultOf(FALSE, Some(<<"Esta imagem foi tirada em ", formatDay(metadata[1].dateTime[1]),
                                          ", não no dia atual">>),
                       Some("Use a câmera para tirar uma foto atual"), metadata, Some("invalid"))
                ELSE ValidationResultOf(TRUE, None, None, metadata, Some("validated"))

validateImageDate_AcceptsUndated(file, stationId, t) ==
  IF stationId = "reference"
    THEN ValidationResultOf(TRUE, None, None, None, None)
  ELSE IF ~StartsWithCompetitor(stationId)
    THEN ValidationResultOf(TRUE, None, None, None, None)
  ELSE LET metadata == extractImageMetadata(file)
       IN IF metadata = Raised
            \* the catch block of validateImageDate
            THEN ValidationResultOf(FALSE, Some(<<"Erro ao processar a imagem">>),
                   Some("Tente novamente ou use a câmera"), None, Some("invalid"))
          ELSE IF metadata = None
            THEN ValidationResultOf(TRUE, None, None, metadata, Some("validated"))
          ELSE IF metadata[1].dateTime = None
            THEN ValidationResultOf(TRUE, None, None, metadata, Some("validated"))
          ELSE LET photoDate == metadata[1].dateTime[1]
               IN IF isToday(photoDate, t)
                    THEN ValidationResultOf(TRUE, None, None, metadata, Some("validated"))
                  ELSE IF formatDay(photoDate) = Raised
                    \* the catch block of validateImageDate
                    THEN ValidationResultOf(FALSE, Some(<<"Erro ao processar a imagem">>),
                           Some("Tente novamente ou use a câmera"), None, Some("invalid"))
                  ELSE ValidationResultOf(FALSE,
                         Some(<<"Esta imagem foi tirada em ", formatDay(photoDate),
                                ", não no dia atual">>),
                         Some("Use a câmera para tirar uma foto atual"),
                         metadata, Some("invalid"))

\* validateImageDate(file, stationId), evaluated at clock t
validateImageDate(file, stationId, t) ==
  IF stationId = "reference"
    THEN ValidationResultOf(TRUE, None, None, None, None)
  ELSE IF ~StartsWithCompetitor(stationId)
    THEN ValidationResultOf(TRUE, None, None, None, None)
  ELSE LET metadata == extractImageMetadata(file)
       IN IF metadata = Raised
            \* the catch block of validateImageDate
            THEN ValidationResultOf(FALSE, Some(<<"Erro ao processar a imagem">>),
                   Some("Tente novamente ou use a câmera"), None, Some("invalid"))
          ELSE IF metadata = None
            THEN ValidationResultOf(FALSE,
                   Some(<<"Não foi possível verificar os metadados da imagem">>),
                   Some("Use a câmera para tirar uma foto atual"), None, Some("invalid"))
          ELSE IF metadata[1].dateTime = None
            THEN ValidationResultOf(FALSE,
                   Some(<<"Não foi possível verificar a data da imagem">>),
                   Some("Use a câmera para tirar uma foto atual"), None, Some("invalid"))
          ELSE LET photoDate == metadata[1].dateTime[1]
               IN IF isToday(photoDate, t)
                    THEN ValidationResultOf(TRUE, None, None, metadata, Some("validated"))
                  ELSE IF formatDay(photoDate) = Raised
                    \* the catch block of validateImageDate
                    THEN ValidationResultOf(FALSE, Some(<<"Erro ao processar a imagem">>),
                           Some("Tente novamente ou use a câmera"), None, Some("invalid"))
                  ELSE ValidationResultOf(FALSE,
                         Some(<<"Esta imagem foi tirada em ", formatDay(photoDate),
                                ", não no dia atual">>),
                         Some("Use a câmera para tirar uma foto atual"),
                         metadata, Some("invalid"))

\* compressImage(file, 600): a JPEG blob, null, or a throw
compressImage(file) ==
  CASE file.decode = "ok" ->
         [threw |-> FALSE, blob |-> Some([type |-> "image/jpeg", bytes |-> <<file.image>>])]
    [] file.decode = "null" -> [threw |-> FALSE, blob |-> None]
    [] file.decode = "fail" -> [threw |-> TRUE, blob |-> None]


----------------------------------------------------------------------------
\* Application state store (localStorage.ts)

PriceTypes == {"vista", "prazo"}
Fuels == {"etanol", "gasolinaComum", "gasolinaAditivada", "dieselS10"}

\* a price text is a sequence of pieces, each a digit or a run of characters
\* that are no digits; "" is <<>>
emptyPriceFields == [f \in Fuels |-> <<>>]

emptyStation ==
  [ photoBase64 |-> <<>>, noChange |-> FALSE,
    prices |-> [t \in PriceTypes |-> emptyPriceFields],
    metadata |-> None ]

\* { ...f, ...g }
Merge(f, g) ==
  [x \in (DOMAIN f) \cup (DOMAIN g) |-> IF x \in DOMAIN g THEN g[x] ELSE f[x]]

buildDefaultState(concorrentes, t) ==
  LET ids == { stationIdForIndex(i) : i \in 0..concorrentes }
      index(id) == CHOOSE i \in 0..concorrentes : stationIdForIndex(i) = id
  IN [ config |-> [concorrentesCount |-> concorrentes, webhookUrl |-> None],
       meta |-> [ names |-> [id \in ids |-> defaultNameForIndex(index(id))],
                  lastEdited |-> Some(toISOString(<<"date", t>>)),
                  lastSent |-> [p \in Periods |-> None] ],
       periods |-> [p \in Periods |-> [stations |-> [id \in ids |-> emptyStation]]] ]

\* JSON.parse answers null for the text "null"
NullText == <<"null">>
ParsesToNull(text) == text = NullText

\* o?.f, and o.f of an object o: undefined when the field is not there
Get(o, f) == IF f \in DOMAIN o THEN o[f] ELSE None
\* o.f ?? d and o.f || d for a field that is an object or a number when there
Field(o, f, d) == IF f \in DOMAIN o THEN o[f] ELSE d

\* readAppState(): the default aggregate when the key is missing or empty,
\* when the text does not parse, and when it parses to null (parsed.meta
\* throws, the catch answers); else a default skeleton for the stored count
\* with the stored meta fields, the stored names and the stored station
\* records spread over it
readAppState(loc, t) ==
  LET raw == loc[STORAGE_KEY]
  IN IF ~Truthy(raw) THEN buildDefaultState(1, t)
     ELSE IF ParsesToNull(raw[1]) THEN buildDefaultState(1, t)
     ELSE IF ~JsonParses(raw[1]) THEN buildDefaultState(1, t)
     ELSE LET parsed == JsonParse(raw[1])
              config == Get(parsed, "config")
              meta == Get(parsed, "meta")
              concorrentes == Field(config, "concorrentesCount", 1)
              safe == buildDefaultState(concorrentes, t)
          IN [ config |-> [ concorrentesCount |-> concorrentes,
                            webhookUrl |-> Get(config, "webhookUrl") ],
               meta |-> [ names |-> Merge(safe.meta.names, Get(meta, "names")),
                          lastEdited |-> Field(meta, "lastEdited", safe.meta.lastEdited),
                          lastSent |-> Field(meta, "lastSent", safe.meta.lastSent) ],
               periods |-> [p \in Periods |->
                  [stations |-> Merge(safe.periods[p].stations,
                                      Get(Get(Get(parsed, "periods"), p), "stations"))]] ]

\* saveAppState(state): stamps lastEdited and replaces the whole aggregate
saveAppState(loc, state, t) ==
  setItem(loc, STORAGE_KEY,
    JsonStringify([state EXCEPT !.meta.lastEdited = Some(toISOString(<<"date", t>>))]))

\* !state.meta.names[id]
NameMissing(names, id) == id \notin DOMAIN names \/ names[id] = <<>>

setConcorrentesCount_KeepsExcess(loc, count, t) ==
  LET state == readAppState(loc, t)
      kept == { stationIdForIndex(i) : i \in 0..count }
      names1 == [id \in (DOMAIN state.meta.names) \cup kept |->
                   IF NameMissing(state.meta.names, id)
                     THEN defaultNameForIndex(CHOOSE i \in 0..count : stationIdForIndex(i) = id)
                     ELSE state.meta.names[id]]
      stations1(p) ==
        LET cur == state.periods[p].stations
        IN [id \in (DOMAIN cur) \cup kept |->
              IF id \in DOMAIN cur THEN cur[id] ELSE emptyStation]
  IN IF count = state.config.concorrentesCount
       THEN loc
       ELSE saveAppState(loc,
              [ config |-> [state.config EXCEPT !.concorrentesCount = count],
                meta |-> [state.meta EXCEPT !.names = names1],
                periods |-> [p \in Periods |-> [stations |-> stations1(p)]] ],
              t)

setConcorrentesCount_KeepsRecords(loc, count, t) ==
  LET state == readAppState(loc, t)
      kept == { stationIdForIndex(i) : i \in 0..count }
      excess == { stationIdForIndex(i) : i \in (count + 1)..20 }
      names1 == [id \in (DOMAIN state.meta.names) \cup kept |->
                   IF NameMissing(state.meta.names, id)
                     THEN defaultNameForIndex(CHOOSE i \in 0..count : stationIdForIndex(i) = id)
                     ELSE state.meta.names[id]]
      stations1(p) ==
        LET cur == state.periods[p].stations
        IN [id \in (DOMAIN cur) \cup kept |->
              IF id \in DOMAIN cur THEN cur[id] ELSE emptyStation]
      drop(f) == [id \in (DOMAIN f) \ excess |-> f[id]]
  IN IF count = state.config.concorrentesCount
       THEN loc
       ELSE saveAppState(loc,
              [ config |-> [state.config EXCEPT !.concorrentesCount = count],
                meta |-> [state.meta EXCEPT !.names = drop(names1)],
                periods |-> [p \in Periods |-> [stations |-> stations1(p)]] ],
              t)

\* setConcorrentesCount(count)
setConcorrentesCount(loc, count, t) ==
  LET state == readAppState(loc, t)
      kept == { stationIdForIndex(i) : i \in 0..count }
      excess == { stationIdForIndex(i) : i \in (count + 1)..20 }
      names1 == [id \in (DOMAIN state.meta.names) \cup kept |->
                   IF NameMissing(state.meta.names, id)
                     THEN defaultNameForIndex(CHOOSE i \in 0..count : stationIdForIndex(i) = id)
                     ELSE state.meta.names[id]]
      stations1(p) ==
        LET cur == state.periods[p].stations
        IN [id \in (DOMAIN cur) \cup kept |->
              IF id \in DOMAIN cur THEN cur[id] ELSE emptyStation]
      drop(f) == [id \in (DOMAIN f) \ excess |-> f[id]]
  IN IF count = state.config.concorrentesCount
       THEN loc
       ELSE saveAppState(loc,
              [ config |-> [state.config EXCEPT !.concorrentesCount = count],
                meta |-> [state.meta EXCEPT !.names = drop(names1)],
                periods |-> [p \in Periods |-> [stations |-> drop(stations1(p))]] ],
              t)

\* getVisibleStationIds(state)
getVisibleStationIds(state) ==
  { stationIdForIndex(i) : i \in 0..state.config.concorrentesCount }

clearPeriodData_EveryPeriod(loc, period, t) ==
  LET state == readAppState(loc, t)
  IN saveAppState(loc,
       [state EXCEPT !.periods =
          [p \in Periods |-> [stations |-> [id \in DOMAIN @[p].stations |-> emptyStation]]]],
       t)

\* the object clearPeriodData(period) saves and returns
ClearedState(loc, period, t) ==
  [readAppState(loc, t) EXCEPT
     !.periods[period].stations = [id \in DOMAIN @ |-> emptyStation]]

\* clearPeriodData(period): every Station Record the period holds becomes the
\* empty record
clearPeriodData(loc, period, t) ==
  saveAppState(loc, ClearedState(loc, period, t), t)

updateStationName_FromDefault(loc, id, name, t) ==
  saveAppState(loc, [buildDefaultState(1, t) EXCEPT
                       !.meta.names = Merge(@, id :> name)], t)

\* updateStationName(id, name)
updateStationName(loc, id, name, t) ==
  LET state == readAppState(loc, t)
  IN saveAppState(loc, [state EXCEPT !.meta.names = Merge(@, id :> name)], t)

\* updateWebhookUrl(url)
updateWebhookUrl(loc, url, t) ==
  LET state == readAppState(loc, t)
  IN saveAppState(loc, [state EXCEPT !.config.webhookUrl = url], t)

\* src/config/webhook.ts: the override this build is compiled with
INTERNAL_WEBHOOK_URL ==
  <<"https://criadordigital-n8n-webhook.xpr5o6.easypanel.host/webhook/SiteFormulario2">>

DEFAULT_WEBHOOK_URL ==
  <<"https://criadordigital-n8n-editor.xpr5o6.easypanel.host/webhook/SiteFormulario">>

\* env.NEXT_PUBLIC_WEBHOOK_URL || env.REACT_APP_WEBHOOK_URL || env.VITE_WEBHOOK_URL
EnvUrl(env) ==
  IF Truthy(env.next) THEN env.next
  ELSE IF Truthy(env.react) THEN env.react
  ELSE env.vite

getWebhookUrl_StoredFirst(internal, env, loc, t) ==
  LET stored == readAppState(loc, t).config.webhookUrl
  IN IF Truthy(stored) THEN stored
     ELSE IF Truthy(internal) THEN internal
     ELSE IF Truthy(EnvUrl(env)) THEN EnvUrl(env)
     ELSE Some(DEFAULT_WEBHOOK_URL)

\* getWebhookUrl(), for a build compiled with the override `internal` and the
\* environment `env`
getWebhookUrl(internal, env, loc, t) ==
  IF Truthy(internal) THEN internal
  ELSE IF Truthy(EnvUrl(env)) THEN EnvUrl(env)
  ELSE LET stored == readAppState(loc, t).config.webhookUrl
       IN IF Truthy(stored) THEN stored
          ELSE Some(DEFAULT_WEBHOOK_URL)

\* the object `next` PriceForm.onStationChange builds, saves and hands to
\* setState
StationWrite(loc, period, id, updater, t) ==
  [readAppState(loc, t) EXCEPT
     !.periods[period].stations = Merge(@, id :> updater)]

\* PriceForm.onStationChange(id, updater), for the form of one period
onStationChange(loc, period, id, updater, t) ==
  saveAppState(loc, StationWrite(loc, period, id, updater, t), t)

sync_Ignored(state, loc, t) == state

\* the listener PriceForm subscribes to "app-state-updated":
\* setState(readAppState())
sync(state, loc, t) == readAppState(loc, t)

\* React state of a PriceForm that has just mounted, no request in flight;
\* `toasts` are the titles of the toasts onSubmit has raised on the page
MountForm(loc, t) ==
  [ state |-> readAppState(loc, t), loading |-> FALSE, errors |-> {},
    request |-> None, toasts |-> <<>> ]

\* PriceForm's state after the closures of a card went through
\* onStationChange with `updaters`, one after the other: each save notifies
\* the listener, then the form that made the closures gets setState(next),
\* which does nothing once that form is unmounted (`owner` is false)
ShownAfter(state, loc, k, updaters, owner, t) ==
  IF updaters = <<>> THEN state
  ELSE LET before == IF Len(updaters) = 1 THEN loc
                     ELSE onStationChange(loc, k[1], k[2], updaters[1], t)
           next == StationWrite(before, k[1], k[2], updaters[Len(updaters)], t)
       IN IF owner THEN next
          ELSE sync(state, saveAppState(before, next, t), t)

\* the Station Record a mounted card renders: state.periods[period].stations[id]
ValueIn(state, k) == state.periods[k[1]].stations[k[2]]
StationOf(loc, k, t) == ValueIn(readAppState(loc, t), k)
HasStation(loc, k, t) == k[2] \in DOMAIN readAppState(loc, t).periods[k[1]].stations


----------------------------------------------------------------------------
\* Capture unit (ImageCapture.tsx, with the closures CardStation passes it)

Sources == {"camera", "gallery"}

\* React state of a freshly mounted ImageCapture whose card shows no photo
InitComp ==
  [ preview |-> None, isProcessing |-> FALSE,
    validationError |-> None, validationSuggestion |-> None,
    hydrate |-> None ]

\* no handlePick call in flight; `alive` tells whether the ImageCapture that
\* made the call is still mounted, `owner` whether the PriceForm is whose
\* closures the call holds
IdlePipe ==
  [ pc |-> "idle", file |-> NoFile, source |-> "camera",
    metadata |-> EmptyMetadata, blob |-> None, value |-> emptyStation,
    alive |-> FALSE, owner |-> FALSE ]

\* the preview-sync effect: the MIME type is guessed from the base64 prefix
MimeOfBase64(text) ==
  CASE text[1] = "iVBORw0KGgo" -> "image/png"
    [] text[1] = "UklGR" -> "image/webp"
    [] OTHER -> "image/jpeg"

PreviewFor(photoBase64) ==
  IF photoBase64 # <<>>
    THEN Some([mime |-> MimeOfBase64(photoBase64), payload |-> photoBase64])
    ELSE None

RunHydrate_WithPreview(c, loc, ses, k) ==
  [c EXCEPT !.hydrate =
     getImageBlob(loc, ses, imageKey(k[1], k[2]), NoTierFailure).value]

\* the hydrate effect, up to its first await: without a preview it calls
\* getImageBlob(key), which reads the tiers at once; `hydrate` is the blob the
\* call in flight will answer.  A run of the effect makes the run before
\* inactive, which stops it unless it is past its check.
RunHydrate(c, loc, ses, k) ==
  [c EXCEPT !.hydrate =
     IF c.preview = None
       THEN getImageBlob(loc, ses, imageKey(k[1], k[2]), NoTierFailure).value
       ELSE None]

\* state of an ImageCapture after its first render and effects
MountComp(value, loc, ses, k) ==
  RunHydrate([InitComp EXCEPT !.preview = PreviewFor(value.photoBase64)], loc, ses, k)

\* the cards PriceForm renders: the visible stations of the active tab
MountedIn(state, k, p) == k[1] = p /\ k[2] \in getVisibleStationIds(state)
Mounted(k, loc, p, t) == MountedIn(readAppState(loc, t), k, p)

\* the effects of every mounted unit after a write of the Application State:
\* the preview-sync effect where valueBase64 changed, and the hydrate effect
\* where the preview changed or, PriceForm having rendered again (`rendered`),
\* the closures CardStation passes are new
Refresh(c, locOld, locNew, ses, p, t, rendered) ==
  LET old == readAppState(locOld, t)
      new == readAppState(locNew, t)
      synced(k) ==
        IF /\ MountedIn(old, k, p)
           /\ ValueIn(old, k).photoBase64 # ValueIn(new, k).photoBase64
          THEN [c[k] EXCEPT !.preview = PreviewFor(ValueIn(new, k).photoBase64)]
          ELSE c[k]
  IN [k \in UnitKeys |->
        IF ~MountedIn(new, k, p) THEN c[k]
        ELSE IF rendered \/ synced(k).preview # comp[k].preview
          THEN RunHydrate(synced(k), locNew, ses, k)
          ELSE synced(k)]

\* source === 'gallery' && stationId.startsWith("competitor_")
NeedsValidation_AnySource(source, stationId) == StartsWithCompetitor(stationId)
NeedsValidation_AnyStation(source, stationId) == source = "gallery"
NeedsValidation(source, stationId) ==
  source = "gallery" /\ StartsWithCompetitor(stationId)

\* the metadata object handlePick builds from the extractor's answer;
\* toISOString throws a RangeError on an Invalid Date
PickMetadata(file) ==
  LET exifMetadata == extractImageMetadata(file)
  IN IF exifMetadata = None
       THEN [threw |-> FALSE, metadata |-> EmptyMetadata]
     ELSE IF exifMetadata[1].dateTime = None
       THEN [threw |-> FALSE,
             metadata |-> MetadataOf(None, exifMetadata[1].device,
                                     exifMetadata[1].gps, None, None)]
     ELSE IF IsInvalidDate(exifMetadata[1].dateTime[1])
       THEN [threw |-> TRUE, metadata |-> EmptyMetadata]
     ELSE [threw |-> FALSE,
           metadata |-> MetadataOf(Some(toISOString(exifMetadata[1].dateTime[1])),
                                   exifMetadata[1].device, exifMetadata[1].gps,
                                   None, None)]

CaughtComp_NoFinally(c) ==
  [c EXCEPT !.validationError = Some(<<"Erro ao processar a imagem">>),
            !.validationSuggestion = Some("Tente novamente")]

\* the catch and finally blocks of handlePick, on the component state
CaughtComp(c) ==
  [c EXCEPT !.validationError = Some(<<"Erro ao processar a imagem">>),
            !.validationSuggestion = Some("Tente novamente"),
            !.isProcessing = FALSE]

\* the early return of handlePick on an invalid validation result
RejectedComp_NoSuggestion(c, validation) ==
  [c EXCEPT !.validationError =
              IF validation.reason # None THEN validation.reason
              ELSE Some(<<"Imagem inválida">>),
            !.isProcessing = FALSE]

RejectedComp(c, validation) ==
  [c EXCEPT !.validationError =
              IF validation.reason # None THEN validation.reason
              ELSE Some(<<"Imagem inválida">>),
            !.validationSuggestion =
              IF validation.suggestion # None THEN validation.suggestion
              ELSE Some("Use a câmera para tirar uma foto atual"),
            !.isProcessing = FALSE]

\* state setters of an unmounted component instance do nothing
SetComp(k, c) == IF pipe[k].alive THEN [comp EXCEPT ![k] = c] ELSE comp

\* handlePick(file, source), up to its first await.  The triggers are rendered
\* while there is no preview and are disabled while isProcessing; pipe[k]
\* follows one call per card at a time.
HandlePick(k, file, source) ==
  /\ actions < MaxActions
  /\ comp[k].preview = None
  /\ ~comp[k].isProcessing
  /\ pipe[k].pc = "idle"
  /\ Mounted(k, local, tab, now)
  /\ comp' = [comp EXCEPT ![k] = [@ EXCEPT !.isProcessing = TRUE,
                                           !.validationError = None,
                                           !.validationSuggestion = None]]
  /\ pipe' = [pipe EXCEPT ![k] =
                [ pc |-> "extract", file |-> file, source |-> source,
                  metadata |-> EmptyMetadata, blob |-> None,
                  value |-> StationOf(local, k, now), alive |-> TRUE,
                  owner |-> TRUE ]]
  /\ actions' = actions + 1
  /\ UNCHANGED <<local, session, now, tab, faults, call, calls, form, hyd>>

Extract_Unstamped(k) ==
  /\ pipe[k].pc = "extract"
  /\ LET picked == PickMetadata(pipe[k].file)
     IN IF picked.threw
          THEN /\ comp' = SetComp(k, CaughtComp(comp[k]))
               /\ pipe' = [pipe EXCEPT ![k] = IdlePipe]
          ELSE IF NeedsValidation(pipe[k].source, k[2])
            THEN /\ pipe' = [pipe EXCEPT ![k].pc = "validate",
                                         ![k].metadata = picked.metadata]
                 /\ comp' = comp
            ELSE /\ pipe' = [pipe EXCEPT ![k].pc = "compress",
                                         ![k].metadata =
                                           picked.metadata]
                 /\ comp' = comp
  /\ UNCHANGED <<local, session, now, tab, actions, faults, call, calls, form, hyd>>

\* await extractImageMetadata(file) and the branch on source and station
Extract(k) ==
  /\ pipe[k].pc = "extract"
  /\ LET picked == PickMetadata(pipe[k].file)
     IN IF picked.threw
          THEN /\ comp' = SetComp(k, CaughtComp(comp[k]))
               /\ pipe' = [pipe EXCEPT ![k] = IdlePipe]
          ELSE IF NeedsValidation(pipe[k].source, k[2])
            THEN /\ pipe' = [pipe EXCEPT ![k].pc = "validate",
                                         ![k].metadata = picked.metadata]
                 /\ comp' = comp
            ELSE /\ pipe' = [pipe EXCEPT ![k].pc = "compress",
                                         ![k].metadata =
                                           [picked.metadata EXCEPT
                                              !.validationStatus = Some("validated")]]
                 /\ comp' = comp
  /\ UNCHANGED <<local, session, now, tab, actions, faults, call, calls, form, hyd>>

\* await validateImageDate(file, stationId) and the early return
Validate(k) ==
  /\ pipe[k].pc = "validate"
  /\ LET validation == validateImageDate(pipe[k].file, k[2], now)
     IN IF ~validation.isValid
          THEN /\ comp' = SetComp(k, RejectedComp(comp[k], validation))
               /\ pipe' = [pipe EXCEPT ![k] = IdlePipe]
          ELSE /\ pipe' = [pipe EXCEPT
                             ![k].pc = "compress",
                             ![k].metadata =
                               [@ EXCEPT !.validationStatus =
                                           IF validation.status # None
                                             THEN validation.status
                                             ELSE Some("validated"),
                                         !.validationReason = validation.reason]]
               /\ comp' = comp
  /\ UNCHANGED <<local, session, now, tab, actions, faults, call, calls, form, hyd>>

Compress_SkipsSave(k) ==
  /\ pipe[k].pc = "compress"
  /\ LET out == compressImage(pipe[k].file)
     IN IF out.threw \/ out.blob = None
          THEN /\ comp' = SetComp(k, CaughtComp(comp[k]))
               /\ pipe' = [pipe EXCEPT ![k] = IdlePipe]
          ELSE /\ pipe' = [pipe EXCEPT ![k].pc = "finish", ![k].blob = out.blob]
               /\ comp' = comp
  /\ UNCHANGED <<local, session, now, tab, actions, faults, call, calls, form, hyd>>

\* await compressImage(file, 600)
Compress(k) ==
  /\ pipe[k].pc = "compress"
  /\ LET out == compressImage(pipe[k].file)
     IN IF out.threw
          THEN /\ comp' = SetComp(k, CaughtComp(comp[k]))
               /\ pipe' = [pipe EXCEPT ![k] = IdlePipe]
          ELSE /\ pipe' = [pipe EXCEPT ![k].pc = "save", ![k].blob = out.blob]
               /\ comp' = comp
  /\ UNCHANGED <<local, session, now, tab, actions, faults, call, calls, form, hyd>>

\* a storage failure is drawn only while the fault budget lasts
Faulty(failed) ==
  IF failed THEN faults < MaxFaults /\ faults' = faults + 1
            ELSE faults' = faults

\* await saveImageBlob(key, blob, metadata)
Save(k, fail) ==
  /\ pipe[k].pc = "save"
  /\ Faulty(fail # NoSaveFailure)
  /\ LET saved == saveImageBlob(local, session, imageKey(k[1], k[2]),
                               pipe[k].blob, Some(pipe[k].metadata), fail)
     IN /\ local' = saved.local
        /\ session' = saved.session
        /\ IF saved.raised
             THEN /\ comp' = SetComp(k, CaughtComp(comp[k]))
                  /\ pipe' = [pipe EXCEPT ![k] = IdlePipe]
             ELSE /\ pipe' = [pipe EXCEPT ![k].pc = "finish"]
                  /\ comp' = comp
  /\ UNCHANGED <<now, tab, actions, call, calls, form, hyd>>


\* which of the two writes of the Application State throws (quota exceeded)
AppFailures == {"none", "first", "second"}

\* onBase64(base64); onMetadata(metadata): CardStation's two closures, each
\* spreading the same `value` it rendered when the closure was made.  Each
\* goes through PriceForm.onStationChange; a throw skips what follows.
NotifyCapture(loc, k, value, base64, metadata, failApp, t) ==
  LET w1 == onStationChange(loc, k[1], k[2],
                            [value EXCEPT !.photoBase64 = base64], t)
      w2 == onStationChange(w1, k[1], k[2],
                            [value EXCEPT !.metadata = Some(metadata)], t)
  IN CASE failApp = "first" -> loc
       [] failApp = "second" -> w1
       [] OTHER -> w2

\* the rest of handlePick after the save: data URL, preview, notifications
Finish(k, failApp) ==
  /\ pipe[k].pc = "finish"
  /\ Faulty(failApp # "none")
  /\ LET dataURL == blobToDataURL(pipe[k].blob[1])
         base64 == dataURLToBase64(dataURL)
         shown == [comp[k] EXCEPT !.preview = Some(dataURL)]
         ended == IF failApp = "none"
                    THEN [shown EXCEPT !.isProcessing = FALSE]
                    ELSE CaughtComp(shown)
     IN /\ local' = NotifyCapture(local, k, pipe[k].value, base64,
                                  pipe[k].metadata, failApp, now)
        /\ comp' = Refresh(SetComp(k, ended), local, local', session, tab, now,
                           failApp # "first")
        /\ form' = [form EXCEPT !.state =
                      ShownAfter(@, local, k,
                        SubSeq(<< [pipe[k].value EXCEPT !.photoBase64 = base64],
                                  [pipe[k].value EXCEPT
                                     !.metadata = Some(pipe[k].metadata)] >>,
                               1, CASE failApp = "first" -> 0
                                    [] failApp = "second" -> 1
                                    [] OTHER -> 2),
                        pipe[k].owner, now)]
  /\ pipe' = [pipe EXCEPT ![k] = IdlePipe]
  /\ UNCHANGED <<session, now, tab, actions, call, calls, hyd>>

\* onBase64(''); ...; onClear(): the two closures of clear()
NotifyClear(loc, k, value, failApp, t) ==
  LET w1 == onStationChange(loc, k[1], k[2],
                            [value EXCEPT !.photoBase64 = <<>>], t)
      w2 == onStationChange(w1, k[1], k[2],
                            [value EXCEPT !.photoBase64 = <<>>,
                                          !.metadata = None], t)
  IN CASE failApp = "first" -> loc
       [] failApp = "second" -> w1
       [] OTHER -> w2

\* clear(): the remove button, shown while there is a preview
Clear(k, failTier, failApp) ==
  /\ actions < MaxActions
  /\ comp[k].preview # None
  /\ Mounted(k, local, tab, now)
  /\ Faulty(failTier # NoTierFailure \/ failApp # "none")
  /\ LET removed == removeImageBlob(local, session, imageKey(k[1], k[2]), failTier)
         cleared == IF failApp = "first"
                      THEN comp
                      ELSE [comp EXCEPT ![k] = [@ EXCEPT !.preview = None,
                                                      !.validationError = None,
                                                      !.validationSuggestion = None]]
     IN /\ session' = removed.session
        /\ local' = NotifyClear(removed.local, k, StationOf(local, k, now),
                                failApp, now)
        /\ comp' = Refresh(cleared, local, local', session', tab, now,
                           failApp # "first")
        /\ form' = [form EXCEPT !.state =
                      ShownAfter(@, removed.local, k,
                        SubSeq(<< [StationOf(local, k, now) EXCEPT
                                     !.photoBase64 = <<>>],
                                  [StationOf(local, k, now) EXCEPT
                                     !.photoBase64 = <<>>, !.metadata = None] >>,
                               1, CASE failApp = "first" -> 0
                                    [] failApp = "second" -> 1
                                    [] OTHER -> 2),
                        TRUE, now)]
  /\ actions' = actions + 1
  /\ UNCHANGED <<pipe, now, tab, call, calls, hyd>>

\* no run of the hydrate effect is past its check
NoRun == None

\* `await getImageBlob(key)` of the hydrate effect answers while the run is
\* still the active one: the run passes `if (blob && active)` and goes on to
\* wait for blobToDataURL.  It holds the closures of the render it started
\* in, each spreading that render's `value`; hyd[k] follows one such run per
\* card at a time.
HydrateFetched(k) ==
  /\ comp[k].hydrate # None
  /\ hyd[k] = NoRun
  /\ hyd' = [hyd EXCEPT ![k] = Some([ blob |-> comp[k].hydrate[1],
                                      value |-> StationOf(local, k, now),
                                      alive |-> TRUE, owner |-> TRUE ])]
  /\ comp' = [comp EXCEPT ![k].hydrate = None]
  /\ UNCHANGED <<local, session, pipe, now, tab, actions, faults, call, calls,
                 form>>

\* the rest of the hydrate effect, which checks `active` no more:
\* setPreview, onBase64, and onMetadata when the store holds metadata for
\* the key by then
Hydrate(k) ==
  /\ hyd[k] # NoRun
  /\ LET run == hyd[k][1]
         dataURL == blobToDataURL(run.blob)
         base64 == dataURLToBase64(dataURL)
         value == run.value
         metadata == getImageMetadata(local, session, imageKey(k[1], k[2]),
                                      NoTierFailure).value
         w1 == onStationChange(local, k[1], k[2],
                               [value EXCEPT !.photoBase64 = base64], now)
         w2 == onStationChange(w1, k[1], k[2],
                               [value EXCEPT !.metadata = metadata], now)
         shown == IF run.alive
                    THEN [comp EXCEPT ![k] = [@ EXCEPT !.preview = Some(dataURL)]]
                    ELSE comp
     IN /\ local' = IF metadata = None THEN w1 ELSE w2
        /\ comp' = Refresh(shown, local, local', session, tab, now, TRUE)
        /\ form' = [form EXCEPT !.state =
                      ShownAfter(@, local, k,
                        SubSeq(<< [value EXCEPT !.photoBase64 = base64],
                                  [value EXCEPT !.metadata = metadata] >>,
                               1, IF metadata = None THEN 1 ELSE 2),
                        run.owner, now)]
  /\ hyd' = [hyd EXCEPT ![k] = NoRun]
  /\ UNCHANGED <<session, pipe, now, tab, actions, faults, call, calls>>

\* the pieces of a price text: the digits, and what \D matches
Digits == {"0", "1", "2", "3", "4", "5", "6", "7", "8", "9"}
IsDigit(c) == c \in Digits

\* the text the "Sem dados" checkbox stores
NoData == <<"Sem dados">>

sanitizePrice_LastDigits(raw) ==
  IF raw = NoData THEN NoData
  ELSE LET all == SelectSeq(raw, IsDigit)
           digits == IF Len(all) > 3 THEN SubSeq(all, Len(all) - 2, Len(all)) ELSE all
       IN CASE Len(digits) = 0 -> <<>>
            [] Len(digits) = 1 -> <<digits[1]>>
            [] Len(digits) = 2 -> <<digits[1], ",", digits[2]>>
            [] OTHER -> <<digits[1], ",", digits[2], digits[3]>>

\* sanitizePrice(raw): raw.replace(/\D/g, "").slice(0, 3), then the comma
sanitizePrice(raw) ==
  IF raw = NoData THEN NoData
  ELSE LET all == SelectSeq(raw, IsDigit)
           digits == SubSeq(all, 1, IF Len(all) > 3 THEN 3 ELSE Len(all))
       IN CASE Len(digits) = 0 -> <<>>
            [] Len(digits) = 1 -> <<digits[1]>>
            [] Len(digits) = 2 -> <<digits[1], ",", digits[2]>>
            [] OTHER -> <<digits[1], ",", digits[2], digits[3]>>

\* what the user types into a price field
PriceInputs == {<<"1", "2", "3", "4">>}
\* the price fields the user edits
EditedFields == {<<"vista", "etanol">>, <<"prazo", "dieselS10">>}

\* PriceInput.onChange of one field of a card
EditPrice(k, ptype, fuel, v) ==
  /\ actions < MaxActions
  /\ <<ptype, fuel>> \in EditedFields
  /\ Mounted(k, local, tab, now)
  /\ LET value == StationOf(local, k, now)
     IN /\ ~value.noChange
        /\ local' = onStationChange(local, k[1], k[2],
                      [value EXCEPT !.prices[ptype][fuel] = sanitizePrice(v)], now)
        /\ form' = [form EXCEPT !.state =
                      StationWrite(local, k[1], k[2],
                        [value EXCEPT !.prices[ptype][fuel] = sanitizePrice(v)],
                        now)]
  /\ comp' = Refresh(comp, local, local', session, tab, now, TRUE)
  /\ actions' = actions + 1
  /\ UNCHANGED <<session, pipe, now, tab, faults, call, calls, hyd>>

\* the "no price change today" checkbox of a card
ToggleNoChange(k) ==
  /\ actions < MaxActions
  /\ Mounted(k, local, tab, now)
  /\ local' = onStationChange(local, k[1], k[2],
                [StationOf(local, k, now) EXCEPT !.noChange = ~@], now)
  /\ form' = [form EXCEPT !.state =
                StationWrite(local, k[1], k[2],
                  [StationOf(local, k, now) EXCEPT !.noChange = ~@], now)]
  /\ comp' = Refresh(comp, local, local', session, tab, now, TRUE)
  /\ actions' = actions + 1
  /\ UNCHANGED <<session, pipe, now, tab, faults, call, calls, hyd>>

\* ConfigModal.onConfirm: cards of removed slots unmount, cards of added
\* slots mount; a handlePick call of an unmounted card keeps running
ChangeCount(n) ==
  /\ actions < MaxActions
  /\ n # readAppState(local, now).config.concorrentesCount
  /\ local' = setConcorrentesCount(local, n, now)
  /\ form' = [form EXCEPT !.state = sync(@, local', now)]
  /\ LET old == readAppState(local, now)
         new == readAppState(local', now)
     IN /\ comp' = [k \in UnitKeys |->
                      IF ~MountedIn(new, k, tab) THEN InitComp
                      ELSE IF ~MountedIn(old, k, tab)
                        THEN MountComp(ValueIn(new, k), local', session, k)
                      ELSE RunHydrate(comp[k], local', session, k)]
        /\ pipe' = [k \in UnitKeys |->
                      IF ~MountedIn(new, k, tab)
                        THEN [pipe[k] EXCEPT !.alive = FALSE]
                        ELSE pipe[k]]
        /\ hyd' = [k \in UnitKeys |->
                     IF ~MountedIn(new, k, tab) /\ hyd[k] # NoRun
                       THEN Some([hyd[k][1] EXCEPT !.alive = FALSE])
                       ELSE hyd[k]]
  /\ actions' = actions + 1
  /\ UNCHANGED <<session, now, tab, faults, call, calls>>

\* the Tabs of the page: the form of the other period replaces the mounted one
SwitchTab(p) ==
  /\ actions < MaxActions
  /\ p # tab
  /\ tab' = p
  /\ LET state == readAppState(local, now)
     IN comp' = [k \in UnitKeys |->
                   IF MountedIn(state, k, p)
                     THEN MountComp(ValueIn(state, k), local, session, k)
                     ELSE InitComp]
  /\ pipe' = [k \in UnitKeys |-> [pipe[k] EXCEPT !.alive = FALSE,
                                                  !.owner = FALSE]]
  /\ form' = [MountForm(local, now) EXCEPT
                !.request = IF form.request = None THEN None
                            ELSE Some([form.request[1] EXCEPT !.owner = FALSE]),
                !.toasts = form.toasts]
  /\ hyd' = [k \in UnitKeys |->
               IF hyd[k] = NoRun THEN NoRun
               ELSE Some([hyd[k][1] EXCEPT !.alive = FALSE, !.owner = FALSE])]
  /\ actions' = actions + 1
  /\ UNCHANGED <<local, session, now, faults, call, calls>>

----------------------------------------------------------------------------
\* Submission and clearing of a period (PriceForm.tsx)

\* !v || v.trim() === ""
Blank(v) == \A i \in DOMAIN v : v[i] = " "

stationIssues_PhotoOptional(id, val) ==
  IF val.noChange THEN {}
  ELSE UNION { { <<id, "prices", ptype, fuel>> :
                   fuel \in { f \in Fuels : Blank(val.prices[ptype][f]) } } :
               ptype \in PriceTypes }

\* the issues the superRefine rule of the station schema adds, as the paths
\* validateForm turns into the error map: the photo always, the eight price
\* fields unless noChange
stationIssues(id, val) ==
  (IF val.photoBase64 = <<>> THEN { <<id, "photoBase64">> } ELSE {})
  \cup
  (IF val.noChange THEN {}
   ELSE UNION { { <<id, "prices", ptype, fuel>> :
                    fuel \in { f \in Fuels : Blank(val.prices[ptype][f]) } } :
                ptype \in PriceTypes })

\* localStorage.getItem(key) || sessionStorage.getItem(key)
StoredBase64(loc, ses, key) ==
  IF Truthy(loc[key]) THEN loc[key]
  ELSE ses[key]

\* validateForm(), for the form of `period` whose React state is `state`:
\* photos missing in the persisted records of the visible stations are taken
\* from the blob store texts, the state is saved when one was, then the
\* schema is applied to the visible stations.  `threw` is the TypeError of
\* reading a field of a station the persisted bucket does not hold.
validateForm(state, loc, ses, period, t) ==
  LET ids == getVisibleStationIds(state)
      read == readAppState(loc, t)
      stations == read.periods[period].stations
      hydrated(id) ==
        /\ stations[id].photoBase64 = <<>>
        /\ Truthy(StoredBase64(loc, ses, imageKey(period, id)))
      currentState ==
        [read EXCEPT !.periods[period].stations =
           [id \in DOMAIN @ |->
              IF id \in ids /\ hydrated(id)
                THEN [@[id] EXCEPT !.photoBase64 =
                        StoredBase64(loc, ses, imageKey(period, id))[1]]
                ELSE @[id]]]
      updated == \E id \in ids : hydrated(id)
  IN IF ~(ids \subseteq DOMAIN stations)
       THEN [threw |-> TRUE, updated |-> FALSE, currentState |-> read, errors |-> {}]
       ELSE [threw |-> FALSE, updated |-> updated, currentState |-> currentState,
             errors |-> UNION { stationIssues(id, currentState.periods[period].stations[id]) :
                                id \in ids }]

\* the environment of this build: no webhook variable is set
BuildEnv == [next |-> None, react |-> None, vite |-> None]

\* onSubmit(), up to `await fetch`: the webhook check, validateForm, and with
\* a valid form setLoading(true) and the request, carrying the state read
\* after the validation.  saveAppState may throw when validateForm saves.
Submit(failApp) ==
  /\ actions < MaxActions
  /\ ~form.loading
  /\ form.request = None
  /\ Truthy(getWebhookUrl(Some(INTERNAL_WEBHOOK_URL), BuildEnv, local, now))
  /\ LET validation == validateForm(form.state, local, session, tab, now)
     IN /\ failApp => validation.updated
        /\ Faulty(failApp)
        /\ IF failApp \/ validation.threw
             THEN UNCHANGED <<local, comp, form>>
             ELSE /\ local' = IF validation.updated
                                THEN saveAppState(local, validation.currentState, now)
                                ELSE local
                  /\ comp' = Refresh(comp, local, local', session, tab, now, TRUE)
                  /\ form' =
                       [ state |-> IF validation.updated
                                     THEN validation.currentState
                                     ELSE form.state,
                         loading |-> validation.errors = {},
                         errors |-> validation.errors,
                         request |->
                           IF validation.errors = {}
                             THEN Some([ period |-> tab, owner |-> TRUE,
                                         posted |-> readAppState(local', now) ])
                             ELSE None,
                         toasts |-> IF validation.errors = {} THEN form.toasts
                                    ELSE Append(form.toasts, "Atenção!") ]
  /\ actions' = actions + 1
  /\ UNCHANGED <<session, pipe, now, tab, call, calls, hyd>>

\* normalizePrice(value): "" and "Sem dados" as they are, otherwise the dots
\* dropped and the first comma turned into a dot
normalizePrice(value) ==
  IF value = <<>> \/ value = NoData THEN value
  ELSE LET v == SelectSeq(value, LAMBDA c : c # ".")
           commas == { i \in DOMAIN v : v[i] = "," }
           first == CHOOSE i \in commas : \A j \in commas : i <= j
       IN [i \in DOMAIN v |-> IF commas # {} /\ i = first THEN "." ELSE v[i]]

\* formatPayloadForN8n(period, state), by station id: the eight prices, the
\* photo, the noChange answer and the validation status of each station the
\* bucket of the period holds (names, dates, device and GPS left aside)
formatPayloadForN8n(period, state) ==
  LET stations == state.periods[period].stations
  IN [id \in DOMAIN stations |->
        LET st == stations[id]
        IN [ prices |-> [t \in PriceTypes |->
                           [f \in Fuels |-> normalizePrice(st.prices[t][f])]],
             photo |-> st.photoBase64,
             noChange |-> IF st.noChange THEN "SIM" ELSE "NÃO",
             status |->
               IF st.metadata = None \/ st.metadata[1].validationStatus = None
                 THEN None
               ELSE IF st.metadata[1].validationStatus = Some("validated")
                 THEN Some("VALIDADA")
               ELSE IF st.metadata[1].validationStatus = Some("warning")
                 THEN Some("AVISO")
               ELSE Some("INVÁLIDA") ]]

\* the ids deleteImagesForPeriod goes through
PurgedIds == {"reference"} \cup { CompetitorIds[i] : i \in 1..10 }

deleteImagesForPeriod_PrimaryOnly(loc, ses, period, fail) ==
  LET purged(key) == key[2] = period /\ key[3] \in PurgedIds
                       /\ (IsImgKey(key) \/ IsMetaKey(key))
      imgOf(key) == imageKey(key[2], key[3])
  IN [ local |-> [key \in DOMAIN loc |->
                    IF purged(key)
                      THEN removeImageBlob(loc, ses, imgOf(key), fail).local[key]
                      ELSE loc[key]],
       session |-> ses ]

\* deleteImagesForPeriod(period): for each id the four removeItem calls in a
\* try block of their own, so a throw ends the removals of that id only
deleteImagesForPeriod(loc, ses, period, fail) ==
  LET purged(key) == key[2] = period /\ key[3] \in PurgedIds
                       /\ (IsImgKey(key) \/ IsMetaKey(key))
      imgOf(key) == imageKey(key[2], key[3])
  IN [ local |-> [key \in DOMAIN loc |->
                    IF purged(key)
                      THEN removeImageBlob(loc, ses, imgOf(key), fail).local[key]
                      ELSE loc[key]],
       session |-> [key \in DOMAIN ses |->
                      IF purged(key)
                        THEN removeImageBlob(loc, ses, imgOf(key), fail).session[key]
                        ELSE ses[key]] ]

SentState_KeepsAfternoon(loc, period, t) ==
  LET read == readAppState(loc, t)
      sent == [read EXCEPT !.meta.lastSent =
                 Merge(@, period :> Some(toISOString(<<"date", t>>)))]
  IN [sent EXCEPT !.periods[period].stations =
        [sid \in DOMAIN @ |->
           [@[sid] EXCEPT !.photoBase64 = <<>>, !.metadata = None,
                          !.noChange = FALSE]]]

\* the object `next` onSubmit builds after an ok response: lastSent of the
\* period, after a morning submission the morning prices in every afternoon
\* record whose station the morning holds too, and the records of the period
\* without photo, metadata and noChange
SentState(loc, period, t) ==
  LET read == readAppState(loc, t)
      sent == [read EXCEPT !.meta.lastSent =
                 Merge(@, period :> Some(toISOString(<<"date", t>>)))]
      morning == sent.periods["manha"].stations
      copied ==
        IF period = "manha"
          THEN [sent EXCEPT !.periods["tarde"].stations =
                  [sid \in DOMAIN @ |->
                     IF sid \in DOMAIN morning
                       THEN [@[sid] EXCEPT !.prices = morning[sid].prices,
                                           !.noChange = FALSE]
                       ELSE @[sid]]]
          ELSE sent
  IN [copied EXCEPT !.periods[period].stations =
        [sid \in DOMAIN @ |->
           [@[sid] EXCEPT !.photoBase64 = <<>>, !.metadata = None,
                          !.noChange = FALSE]]]

\* how the request ends: an ok response, a response whose status is not 2xx,
\* or fetch rejecting
Outcomes == {"ok", "status", "network"}

onResponse_PurgesFirst(loc, ses, period, outcome, failTier, failApp, t) ==
  LET removed == deleteImagesForPeriod(loc, ses, period, failTier)
      next == SentState(loc, period, t)
  IN IF outcome # "ok"
       THEN [local |-> removed.local, session |-> removed.session, next |-> None]
       ELSE [ local |-> IF failApp THEN removed.local
                        ELSE saveAppState(removed.local, next, t),
              session |-> removed.session,
              next |-> IF failApp THEN None ELSE Some(next) ]

\* the stores after the part of onSubmit that follows `await fetch`, and the
\* object handed to setState if the handler got that far: anything but an ok
\* response throws at once; after an ok response the images are deleted
\* before saveAppState, which may throw
onResponse(loc, ses, period, outcome, failTier, failApp, t) ==
  IF outcome # "ok"
    THEN [local |-> loc, session |-> ses, next |-> None]
    ELSE LET removed == deleteImagesForPeriod(loc, ses, period, failTier)
             next == SentState(loc, period, t)
         IN [ local |-> IF failApp THEN removed.local
                        ELSE saveAppState(removed.local, next, t),
              session |-> removed.session,
              next |-> IF failApp THEN None ELSE Some(next) ]

\* the rest of onSubmit, once fetch has settled.  The setters act on the form
\* that sent the request; once it is unmounted, the mounted form learns of
\* the save through its listener.
Respond(outcome, failTier, failApp) ==
  /\ form.request # None
  /\ (failTier # NoTierFailure \/ failApp) => outcome = "ok"
  /\ Faulty(failTier # NoTierFailure \/ failApp)
  /\ LET request == form.request[1]
         done == onResponse(local, session, request.period, outcome,
                            failTier, failApp, now)
     IN /\ local' = done.local
        /\ session' = done.session
        /\ form' =
             IF request.owner
               THEN [ state |-> IF done.next = None THEN form.state
                                ELSE done.next[1],
                      loading |-> FALSE,
                      errors |-> IF done.next = None THEN form.errors ELSE {},
                      request |-> None,
                      toasts |-> Append(form.toasts,
                                        IF done.next = None THEN "Erro ao enviar"
                                        ELSE "Obrigado") ]
               ELSE [form EXCEPT
                       !.state = IF done.next = None THEN @
                                 ELSE sync(@, local', now),
                       !.request = None,
                       !.toasts = Append(@, IF done.next = None
                                                THEN "Erro ao enviar"
                                                ELSE "Obrigado")]
        /\ comp' = Refresh(comp, local, local', session', tab, now,
                           request.owner \/ done.next # None)
  /\ UNCHANGED <<pipe, now, tab, actions, call, calls, hyd>>

\* onClear(): clearPeriodData, which may throw, then deleteImagesForPeriod,
\* setState and setErrors; the button is disabled while loading
ClearPeriod(failTier, failApp) ==
  /\ actions < MaxActions
  /\ ~form.loading
  /\ failApp => failTier = NoTierFailure
  /\ Faulty(failTier # NoTierFailure \/ failApp)
  /\ IF failApp
       THEN UNCHANGED <<local, session, comp, form>>
       ELSE LET removed == deleteImagesForPeriod(clearPeriodData(local, tab, now),
                                                 session, tab, failTier)
            IN /\ local' = removed.local
               /\ session' = removed.session
               /\ comp' = Refresh(comp, local, local', session', tab, now, TRUE)
               /\ form' = [form EXCEPT !.state = ClearedState(local, tab, now),
                                       !.errors = {}]
  /\ actions' = actions + 1
  /\ UNCHANGED <<pipe, now, tab, call, calls, hyd>>

----------------------------------------------------------------------------
\* The form in use

NoCall ==
  [ op |-> "none", key |-> STORAGE_KEY, blob |-> None, metadata |-> None,
    failSave |-> NoSaveFailure, failTier |-> NoTierFailure,
    raised |-> FALSE, fallback |-> FALSE, result |-> None ]

EmptyStore == [key \in Keys |-> None]

Init ==
  /\ local = EmptyStore
  /\ session = EmptyStore
  /\ comp = [k \in UnitKeys |-> InitComp]
  /\ pipe = [k \in UnitKeys |-> IdlePipe]
  /\ now \in NowTimes
  /\ tab = "manha"
  /\ actions = 0
  /\ faults = 0
  /\ call = NoCall
  /\ calls = 0
  /\ form = MountForm(local, now)
  /\ hyd = [k \in UnitKeys |-> None]

Next ==
  \/ \E k \in UnitKeys, file \in PickedFiles, source \in Sources :
       HandlePick(k, file, source)
  \/ \E k \in UnitKeys : Extract(k)
  \/ \E k \in UnitKeys : Validate(k)
  \/ \E k \in UnitKeys : Compress(k)
  \/ \E k \in UnitKeys, fail \in SaveFailures : Save(k, fail)
  \/ \E k \in UnitKeys, failApp \in AppFailures : Finish(k, failApp)
  \/ \E k \in UnitKeys, failTier \in TierFailures, failApp \in AppFailures :
       Clear(k, failTier, failApp)
  \/ \E k \in UnitKeys : HydrateFetched(k)
  \/ \E k \in UnitKeys : Hydrate(k)
  \/ \E k \in UnitKeys, field \in EditedFields, v \in PriceInputs :
       EditPrice(k, field[1], field[2], v)
  \/ \E k \in UnitKeys : ToggleNoChange(k)
  \/ \E n \in 1..MaxCount : ChangeCount(n)
  \/ \E p \in Periods : SwitchTab(p)

Spec == Init /\ [][Next]_vars

\* the awaits of handlePick settle: the file reader, the EXIF parser, the
\* image decoder and canvas.toBlob call back, the storage calls return; as
\* long as some call waits, one of the waiting calls goes on
Settles ==
  WF_vars(\E k \in UnitKeys :
            \/ Extract(k)
            \/ Validate(k)
            \/ Compress(k)
            \/ \E fail \in SaveFailures : Save(k, fail)
            \/ \E failApp \in AppFailures : Finish(k, failApp))

SpecLive == Init /\ [][Next]_vars /\ Settles


\* the awaits of the hydrate effect settle: getImageBlob answers and the
\* file reader of blobToDataURL calls back; as long as some run of the effect
\* waits, one of the waiting runs goes on
HydrateSettles ==
  WF_vars(\E k \in UnitKeys : HydrateFetched(k) \/ Hydrate(k))

SpecQuiet == Init /\ [][Next]_vars /\ HydrateSettles

----------------------------------------------------------------------------
\* The form opened again over what an earlier visit left in localStorage

\* the capture of the earlier visit: a camera picture of that day on the
\* reference card of the morning
EarlierUnit == <<"manha", "reference">>
EarlierBlob == [type |-> "image/jpeg", bytes |-> <<2>>]
EarlierMetadata ==
  MetadataOf(Some(toISOString(<<"date", 23>>)), Some("device"), Some("gps"),
             Some("validated"), None)

\* localStorage after that capture: the save, then the two notifications,
\* either taken by localStorage or refused by it
EarlierVisit(failApp) ==
  LET saved == saveImageBlob(EmptyStore, EmptyStore,
                             imageKey(EarlierUnit[1], EarlierUnit[2]),
                             Some(EarlierBlob), Some(EarlierMetadata), NoSaveFailure)
  IN NotifyCapture(saved.local, EarlierUnit, emptyStation,
                   dataURLToBase64(blobToDataURL(EarlierBlob)),
                   EarlierMetadata, failApp, 23)

\* sessionStorage starts empty; the morning form mounts and its effects run
ReloadInit ==
  /\ local \in { EarlierVisit(failApp) : failApp \in {"none", "first"} }
  /\ session = EmptyStore
  /\ now \in NowTimes
  /\ tab = "manha"
  /\ comp = [k \in UnitKeys |->
               IF Mounted(k, local, tab, now)
                 THEN MountComp(StationOf(local, k, now), local, session, k)
                 ELSE InitComp]
  /\ pipe = [k \in UnitKeys |-> IdlePipe]
  /\ actions = 0
  /\ faults = 0
  /\ call = NoCall
  /\ calls = 0
  /\ form = MountForm(local, now)
  /\ hyd = [k \in UnitKeys |-> None]

SpecReload == ReloadInit /\ [][Next]_vars

----------------------------------------------------------------------------
\* The form after a competitor slot with a picture was removed

\* the slot, and the picture taken on its morning card while it was visible
RemovedUnit == <<"manha", "competitor_2">>
RemovedBlob == [type |-> "image/jpeg", bytes |-> <<2, 1>>]
RemovedMetadata ==
  MetadataOf(Some(toISOString(<<"date", 22>>)), Some("device"), Some("gps"),
             Some("validated"), None)

\* localStorage after the earlier visit: the count raised to two, the capture
\* on the second competitor saved and notified, the count lowered to one
RemovedVisit ==
  LET widened == setConcorrentesCount(EmptyStore, 2, 23)
      saved == saveImageBlob(widened, EmptyStore,
                             imageKey(RemovedUnit[1], RemovedUnit[2]),
                             Some(RemovedBlob), Some(RemovedMetadata), NoSaveFailure)
      captured == NotifyCapture(saved.local, RemovedUnit, emptyStation,
                                dataURLToBase64(blobToDataURL(RemovedBlob)),
                                RemovedMetadata, "none", 23)
  IN setConcorrentesCount(captured, 1, 23)

\* the morning form mounts over it and its effects run
SlotInit ==
  /\ local = RemovedVisit
  /\ session = EmptyStore
  /\ now \in NowTimes
  /\ tab = "manha"
  /\ comp = [k \in UnitKeys |->
               IF Mounted(k, local, tab, now)
                 THEN MountComp(StationOf(local, k, now), local, session, k)
                 ELSE InitComp]
  /\ pipe = [k \in UnitKeys |-> IdlePipe]
  /\ actions = 0
  /\ faults = 0
  /\ call = NoCall
  /\ calls = 0
  /\ form = MountForm(local, now)
  /\ hyd = [k \in UnitKeys |-> None]

SpecSlot == SlotInit /\ [][Next]_vars

----------------------------------------------------------------------------
\* The form after the user picked a file and moved to the other tab

\* the card the file was picked on, and the camera picture picked
AwayUnit == <<"manha", "reference">>
AwayFile == FileOf("date", 47, 2, "ok")

\* handlePick has reached its first await; the morning form was unmounted by
\* the switch to the afternoon tab, whose cards are mounted and empty
AwayInit ==
  /\ local = EmptyStore
  /\ session = EmptyStore
  /\ now \in NowTimes
  /\ tab = "tarde"
  /\ comp = [k \in UnitKeys |->
               IF Mounted(k, local, tab, now)
                 THEN MountComp(StationOf(local, k, now), local, session, k)
                 ELSE InitComp]
  /\ pipe = [k \in UnitKeys |->
               IF k = AwayUnit
                 THEN [ pc |-> "extract", file |-> AwayFile, source |-> "camera",
                        metadata |-> EmptyMetadata, blob |-> None,
                        value |-> emptyStation, alive |-> FALSE,
                        owner |-> FALSE ]
                 ELSE IdlePipe]
  /\ actions = 0
  /\ faults = 0
  /\ call = NoCall
  /\ calls = 0
  /\ form = MountForm(local, now)
  /\ hyd = [k \in UnitKeys |-> None]

SpecAway == AwayInit /\ [][Next]_vars

----------------------------------------------------------------------------
\* The form opened again, filled in during an earlier visit of the day

\* the picture of a station, as bytes
SurveyPhoto(id) == IF id = "reference" THEN <<1>> ELSE <<2>>

\* a morning record with its photo and the eight prices
SurveyedStation(id) ==
  [ photoBase64 |-> Base64Encode(SurveyPhoto(id)), noChange |-> FALSE,
    prices |-> [t \in PriceTypes |-> [f \in Fuels |-> <<"4", ",", "5", "6">>]],
    metadata |-> Some(EarlierMetadata) ]

\* an afternoon record with its photo and "no change" ticked
UnchangedStation(id) ==
  [ photoBase64 |-> Base64Encode(SurveyPhoto(id)), noChange |-> TRUE,
    prices |-> [t \in PriceTypes |-> emptyPriceFields],
    metadata |-> Some(EarlierMetadata) ]

\* how far the earlier visit got: everything filled in; one price of the
\* competitor missing; the reference picture saved in the blob store while
\* its notifications were refused
SurveyVariants == {"ready", "unpriced", "unhydrated"}

SurveyState(variant) ==
  [buildDefaultState(1, 23) EXCEPT
     !.periods = [p \in Periods |-> [stations |->
        [id \in DOMAIN @[p].stations |->
           IF p = "tarde" THEN UnchangedStation(id)
           ELSE IF variant = "unpriced" /\ id = "competitor_1"
             THEN [SurveyedStation(id) EXCEPT !.prices["vista"]["etanol"] = <<>>]
           ELSE IF variant = "unhydrated" /\ id = "reference"
             THEN [SurveyedStation(id) EXCEPT !.photoBase64 = <<>>,
                                              !.metadata = None]
           ELSE SurveyedStation(id)]]]]

\* the img: and meta: records of the stations `ids`, in both periods
SurveyTier(ids) ==
  [key \in Keys |->
     IF key # STORAGE_KEY /\ key[3] \in ids
       THEN IF IsImgKey(key) THEN Some(Base64Encode(SurveyPhoto(key[3])))
            ELSE Some(JsonStringify(EarlierMetadata))
       ELSE None]

\* the reference pictures went to localStorage, those of the competitor to
\* sessionStorage (the fallback); the morning form mounts and its effects run
FormInit ==
  /\ local \in { saveAppState(SurveyTier({"reference"}), SurveyState(variant), 23) :
                   variant \in SurveyVariants }
  /\ session = SurveyTier({"competitor_1"})
  /\ now \in NowTimes
  /\ tab = "manha"
  /\ comp = [k \in UnitKeys |->
               IF Mounted(k, local, tab, now)
                 THEN MountComp(StationOf(local, k, now), local, session, k)
                 ELSE InitComp]
  /\ pipe = [k \in UnitKeys |-> IdlePipe]
  /\ actions = 0
  /\ faults = 0
  /\ call = NoCall
  /\ calls = 0
  /\ form = MountForm(local, now)
  /\ hyd = [k \in UnitKeys |-> None]

FormNext ==
  \/ \E k \in UnitKeys, file \in PickedFiles, source \in Sources :
       HandlePick(k, file, source)
  \/ \E k \in UnitKeys : Extract(k)
  \/ \E k \in UnitKeys : Validate(k)
  \/ \E k \in UnitKeys : Compress(k)
  \/ \E k \in UnitKeys, fail \in SaveFailures : Save(k, fail)
  \/ \E k \in UnitKeys, failApp \in AppFailures : Finish(k, failApp)
  \/ \E k \in UnitKeys, failTier \in TierFailures, failApp \in AppFailures :
       Clear(k, failTier, failApp)
  \/ \E k \in UnitKeys : HydrateFetched(k)
  \/ \E k \in UnitKeys : Hydrate(k)
  \/ \E k \in UnitKeys, field \in EditedFields, v \in PriceInputs :
       EditPrice(k, field[1], field[2], v)
  \/ \E k \in UnitKeys : ToggleNoChange(k)
  \/ \E n \in 1..MaxCount : ChangeCount(n)
  \/ \E p \in Periods : SwitchTab(p)
  \/ \E failApp \in BOOLEAN : Submit(failApp)
  \/ \E outcome \in Outcomes, failTier \in TierFailures, failApp \in BOOLEAN :
       Respond(outcome, failTier, failApp)
  \/ \E failTier \in TierFailures, failApp \in BOOLEAN :
       ClearPeriod(failTier, failApp)

SpecForm == FormInit /\ [][FormNext]_vars

----------------------------------------------------------------------------
\* The blob store API called directly, from any content of the two tiers

\* the key the calls are made with; the competitor_1 records are bystanders
StoreKeys == { imageKey("manha", "reference") }

StoredMetadata == MetadataOf(Some(toISOString(<<"date", 23>>)), None, None,
                             Some("validated"), None)
SavedMetadata == MetadataOf(Some(toISOString(<<"date", 24>>)), Some("device"), None,
                            Some("validated"), None)

VolatileMetadata == MetadataOf(None, Some("device"), None, Some("validated"), None)

\* what the primary tier may hold under an img key and under a meta key
\* before a call
StoredImages == { None, Some(Base64Encode(<<1>>)) }
StoredMetas == { None, Some(JsonStringify(StoredMetadata)), Some(<<"corrupt">>) }
\* what the secondary tier may hold under them
VolatileImages == { None, Some(Base64Encode(<<2, 1>>)) }
VolatileMetas == { None, Some(JsonStringify(VolatileMetadata)), Some(<<"corrupt">>) }
\* what the application-state key may hold
StoredStates == { None, Some(JsonStringify(buildDefaultState(1, 24))) }

\* the blobs and metadata handed to save
SavedBlobs == { [type |-> "image/jpeg", bytes |-> <<2>>],
                [type |-> "image/png", bytes |-> <<1, 2>>] }
SavedMetas == { None, Some(SavedMetadata) }

\* a tier holding img/meta under the reference key, optionally a full entry
\* under the competitor_1 key, and app under the application-state key
TierOf(img, meta, other, app) ==
  [k \in Keys |->
     CASE k = imageKey("manha", "reference") -> img
       [] k = metadataKey("manha", "reference") -> meta
       [] k = imageKey("manha", "competitor_1") ->
            IF other THEN Some(Base64Encode(<<1>>)) ELSE None
       [] k = metadataKey("manha", "competitor_1") ->
            IF other THEN Some(JsonStringify(StoredMetadata)) ELSE None
       [] k = STORAGE_KEY -> app
       [] OTHER -> None]

StoreInit ==
  /\ \E o \in BOOLEAN :
       /\ local \in { TierOf(i, m, o, a) : i \in StoredImages, m \in StoredMetas,
                                           a \in StoredStates }
       /\ session \in { TierOf(i, m, o, None) : i \in VolatileImages,
                                                m \in VolatileMetas }
  /\ comp = [k \in UnitKeys |-> InitComp]
  /\ pipe = [k \in UnitKeys |-> IdlePipe]
  /\ now \in NowTimes
  /\ tab = "manha"
  /\ actions = 0
  /\ faults = 0
  /\ call = NoCall
  /\ calls = 0
  /\ form = MountForm(local, now)
  /\ hyd = [k \in UnitKeys |-> None]

ApiSave(key, blob, metadata, fail) ==
  /\ calls < MaxCalls
  /\ LET saved == saveImageBlob(local, session, key, Some(blob), metadata, fail)
       IN /\ local' = saved.local
          /\ session' = saved.session
          /\ call' = [NoCall EXCEPT !.op = "save", !.key = key, !.blob = Some(blob),
                                    !.metadata = metadata, !.failSave = fail,
                                    !.raised = saved.raised, !.fallback = saved.fallback]
          /\ UNCHANGED <<comp, pipe, now, tab, actions, faults, form, hyd>>
          /\ calls' = calls + 1

ApiGet(key, fail) ==
  /\ calls < MaxCalls
  /\ LET got == getImageBlob(local, session, key, fail)
       IN /\ call' = [NoCall EXCEPT !.op = "get", !.key = key, !.failTier = fail,
                                    !.raised = got.raised, !.result = got.value]
          /\ UNCHANGED <<local, session, comp, pipe, now, tab, actions, faults, form, hyd>>
          /\ calls' = calls + 1

ApiGetMetadata(key, fail) ==
  /\ calls < MaxCalls
  /\ LET got == getImageMetadata(local, session, key, fail)
       IN /\ call' = [NoCall EXCEPT !.op = "getMetadata", !.key = key, !.failTier = fail,
                                    !.raised = got.raised, !.result = got.value]
          /\ UNCHANGED <<local, session, comp, pipe, now, tab, actions, faults, form, hyd>>
          /\ calls' = calls + 1

ApiRemove(key, fail) ==
  /\ calls < MaxCalls
  /\ LET removed == removeImageBlob(local, session, key, fail)
       IN /\ local' = removed.local
          /\ session' = removed.session
          /\ call' = [NoCall EXCEPT !.op = "remove", !.key = key, !.failTier = fail,
                                    !.raised = removed.raised]
          /\ UNCHANGED <<comp, pipe, now, tab, actions, faults, form, hyd>>
          /\ calls' = calls + 1

ApiClear(fail) ==
  /\ calls < MaxCalls
  /\ LET cleared == clearImageCache(local, session, fail)
       IN /\ local' = cleared.local
          /\ session' = cleared.session
          /\ call' = [NoCall EXCEPT !.op = "clear", !.failTier = fail,
                                    !.raised = cleared.raised]
          /\ UNCHANGED <<comp, pipe, now, tab, actions, faults, form, hyd>>
          /\ calls' = calls + 1

StoreNext ==
  \/ \E key \in StoreKeys, blob \in SavedBlobs, metadata \in SavedMetas,
        fail \in SaveFailures : ApiSave(key, blob, metadata, fail)
  \/ \E key \in StoreKeys, fail \in TierFailures : ApiGet(key, fail)
  \/ \E key \in StoreKeys, fail \in TierFailures : ApiGetMetadata(key, fail)
  \/ \E key \in StoreKeys, fail \in TierFailures : ApiRemove(key, fail)
  \/ \E fail \in TierFailures : ApiClear(fail)

SpecStore == StoreInit /\ [][StoreNext]_vars

----------------------------------------------------------------------------
\* The application state store called directly, from any persisted content

\* the counts the configuration dialog is confirmed with
ConfiguredCounts == {1, 2, 5}

\* a Station Record the user filled in
FilledStation ==
  [ photoBase64 |-> Base64Encode(<<1>>), noChange |-> TRUE,
    prices |-> [pt \in PriceTypes |-> [f \in Fuels |-> <<"1", ",", "2", "3">>]],
    metadata |-> Some(StoredMetadata) ]

\* a name the user gave: the prefix stays, the rest is typed
GivenName(index) == defaultNameForIndex(index) \o <<"Centro">>

StoredWebhookUrl == <<"https://example.org/webhook">>

\* the aggregate an earlier use of the form left: every slot of the count
\* renamed and filled in for both periods, a webhook URL and a send recorded
UsedState(count) ==
  LET ids == { stationIdForIndex(i) : i \in 0..count }
      index(id) == CHOOSE i \in 0..count : stationIdForIndex(i) = id
  IN [ config |-> [concorrentesCount |-> count, webhookUrl |-> Some(StoredWebhookUrl)],
       meta |-> [ names |-> [id \in ids |-> GivenName(index(id))],
                  lastEdited |-> Some(toISOString(<<"date", 23>>)),
                  lastSent |-> [p \in Periods |->
                                  IF p = "manha" THEN Some(toISOString(<<"date", 23>>))
                                  ELSE None] ],
       periods |-> [p \in Periods |-> [stations |-> [id \in ids |-> FilledStation]]] ]

\* aggregates that parse but lack parts: only a count; a count and a
\* reference record of the morning that is only a photo field; a count and a
\* competitor record of the afternoon without the prazo prices
OnlyCount == [config |-> [concorrentesCount |-> 2]]
OnlyPhoto ==
  [ config |-> [concorrentesCount |-> 1],
    periods |-> [manha |-> [stations |-> [reference |-> [photoBase64 |-> <<>>]]]] ]
OnlyVista ==
  [ config |-> [concorrentesCount |-> 1],
    meta |-> [names |-> [competitor_1 |-> GivenName(1)]],
    periods |-> [tarde |-> [stations |->
       [competitor_1 |-> [ photoBase64 |-> <<>>, noChange |-> FALSE,
                           prices |-> [vista |-> emptyPriceFields] ]]]] ]

\* what the key may hold when the program starts: nothing, the empty text,
\* text that does not parse, the text "null", the text "{}", aggregates that
\* lack parts, aggregates the program saved
MissingTexts == { None, Some(<<>>) }
CorruptTexts == { Some(<<"corrupt">>) }
MalformedTexts ==
  { Some(NullText), Some(JsonStringify(<<>>)), Some(JsonStringify(OnlyCount)),
    Some(JsonStringify(OnlyPhoto)), Some(JsonStringify(OnlyVista)) }
SavedTexts ==
  { Some(JsonStringify(buildDefaultState(1, 23))),
    Some(JsonStringify(UsedState(2))), Some(JsonStringify(UsedState(5))) }
PersistedTexts == MissingTexts \cup CorruptTexts \cup MalformedTexts \cup SavedTexts

NoAppCall ==
  [ op |-> "none", arg |-> None, before |-> None, raised |-> FALSE,
    result |-> None, log |-> <<>> ]

AppInit ==
  /\ local \in { [EmptyStore EXCEPT ![STORAGE_KEY] = text] : text \in PersistedTexts }
  /\ session = EmptyStore
  /\ comp = [k \in UnitKeys |-> InitComp]
  /\ pipe = [k \in UnitKeys |-> IdlePipe]
  /\ now \in NowTimes
  /\ tab = "manha"
  /\ actions = 0
  /\ faults = 0
  /\ call = NoAppCall
  /\ calls = 0
  /\ form = MountForm(local, now)
  /\ hyd = [k \in UnitKeys |-> None]

\* the record of one call; a write that localStorage refuses raises
AppCallOf(op, arg, raised, result, log) ==
  [ op |-> op, arg |-> arg, before |-> local[STORAGE_KEY], raised |-> raised,
    result |-> result, log |-> log ]

\* what a call that writes leaves in storage
Written(written, fail) == IF fail THEN local ELSE written

ApiRead ==
  /\ calls < MaxAppCalls
  /\ call' = AppCallOf("read", None, FALSE, Some(readAppState(local, now)), call.log)
  /\ calls' = calls + 1
  /\ UNCHANGED <<local, session, comp, pipe, now, tab, actions, faults, form, hyd>>

ApiSetCount(n, fail) ==
  /\ calls < MaxAppCalls
  /\ LET written == setConcorrentesCount(local, n, now)
         raised == fail /\ written # local
     IN /\ local' = Written(written, fail)
        /\ call' = AppCallOf("setCount", n, raised, None,
                             Append(call.log, [count |-> n, raised |-> raised,
                                               before |-> local[STORAGE_KEY]]))
  /\ calls' = calls + 1
  /\ UNCHANGED <<session, comp, pipe, now, tab, actions, faults, form, hyd>>

ApiClearPeriod(p, fail) ==
  /\ calls < MaxAppCalls
  /\ local' = Written(clearPeriodData(local, p, now), fail)
  /\ call' = AppCallOf("clearPeriod", p, fail, None, call.log)
  /\ calls' = calls + 1
  /\ UNCHANGED <<session, comp, pipe, now, tab, actions, faults, form, hyd>>

ApiUpdateName(id, name) ==
  /\ calls < MaxAppCalls
  /\ local' = updateStationName(local, id, name, now)
  /\ call' = AppCallOf("updateName", <<id, name>>, FALSE, None, call.log)
  /\ calls' = calls + 1
  /\ UNCHANGED <<session, comp, pipe, now, tab, actions, faults, form, hyd>>

ApiUpdateWebhook(url) ==
  /\ calls < MaxAppCalls
  /\ local' = updateWebhookUrl(local, url, now)
  /\ call' = AppCallOf("updateWebhook", url, FALSE, None, call.log)
  /\ calls' = calls + 1
  /\ UNCHANGED <<session, comp, pipe, now, tab, actions, faults, form, hyd>>

\* the overrides a build is compiled with, and the environments it runs in
InternalChoices == { None, Some(<<>>), Some(INTERNAL_WEBHOOK_URL) }
EnvChoices ==
  { [next |-> None, react |-> None, vite |-> None],
    [next |-> Some(<<>>), react |-> None, vite |-> Some(<<"https://example.org/vite">>)],
    [next |-> None, react |-> Some(<<"https://example.org/react">>),
     vite |-> Some(<<"https://example.org/vite">>)] }

ApiGetWebhook(internal, env) ==
  /\ calls < MaxAppCalls
  /\ call' = AppCallOf("getWebhook", [internal |-> internal, env |-> env], FALSE,
                       getWebhookUrl(internal, env, local, now), call.log)
  /\ calls' = calls + 1
  /\ UNCHANGED <<local, session, comp, pipe, now, tab, actions, faults, form, hyd>>

AppNext ==
  \/ ApiRead
  \/ \E n \in ConfiguredCounts, fail \in BOOLEAN : ApiSetCount(n, fail)
  \/ \E p \in Periods, fail \in BOOLEAN : ApiClearPeriod(p, fail)
  \/ ApiUpdateName("competitor_1", GivenName(1) \o <<"Norte">>)
  \/ \E url \in { None, Some(<<"https://example.org/other">>) } : ApiUpdateWebhook(url)
  \/ \E internal \in InternalChoices, env \in EnvChoices : ApiGetWebhook(internal, env)

SpecApp == AppInit /\ [][AppNext]_vars

----------------------------------------------------------------------------
\* The mutations of the store that have one target, called directly

\* the records a card hands to PriceForm.onStationChange
UpdaterChoices == { FilledStation, emptyStation }

\* PriceForm.onStationChange(id, updater) of the form of `period`
ApiStationChange(period, id, updater) ==
  /\ calls < MaxAppCalls
  /\ local' = onStationChange(local, period, id, updater, now)
  /\ call' = AppCallOf("stationChange",
                       [period |-> period, id |-> id, updater |-> updater],
                       FALSE, None, call.log)
  /\ calls' = calls + 1
  /\ UNCHANGED <<session, comp, pipe, now, tab, actions, faults, form, hyd>>

MutationNext ==
  \/ \E id \in {"reference", "competitor_2"} :
       ApiUpdateName(id, GivenName(0) \o <<"Norte">>)
  \/ \E url \in { None, Some(<<"https://example.org/other">>) } : ApiUpdateWebhook(url)
  \/ \E period \in Periods, id \in {"reference", "competitor_2"},
        updater \in UpdaterChoices :
       ApiStationChange(period, id, updater)

SpecMutations == AppInit /\ [][MutationNext]_vars

----------------------------------------------------------------------------
\* The helpers of the cards called directly: the price sanitizer of
\* CardStation, the metadata extractor and the date validator

\* what a price field can receive: every text of at most MaxTyped pieces, the
\* "Sem dados" text, and that text with a digit after it
TypedPieces == {"1", "2", "9", ",", "a"}
TypedTexts ==
  UNION { [1..n -> TypedPieces] : n \in 0..MaxTyped }
    \cup { NoData, NoData \o <<"7">> }

\* the station ids the validator is called with: the cards of the form and an
\* id that is neither the reference nor a competitor slot
ValidatedIds == StationIds \cup {"station_1"}

\* the clocks the helpers run at: the first and the last hour of the day
HelperTimes == {24, 47}

NoHelperCall == [op |-> "none", arg |-> None, id |-> "", result |-> None]

HelperInit ==
  /\ local = EmptyStore
  /\ session = EmptyStore
  /\ comp = [k \in UnitKeys |-> InitComp]
  /\ pipe = [k \in UnitKeys |-> IdlePipe]
  /\ now \in HelperTimes
  /\ tab = "manha"
  /\ actions = 0
  /\ faults = 0
  /\ call = NoHelperCall
  /\ calls = 0
  /\ form = MountForm(local, now)
  /\ hyd = [k \in UnitKeys |-> None]

CallSanitize(raw) ==
  /\ calls < MaxCalls
  /\ call' = [op |-> "sanitizePrice", arg |-> raw, id |-> "",
              result |-> sanitizePrice(raw)]
  /\ calls' = calls + 1
  /\ UNCHANGED <<local, session, comp, pipe, now, tab, actions, faults, form, hyd>>

CallExtract(file) ==
  /\ calls < MaxCalls
  /\ call' = [op |-> "extractImageMetadata", arg |-> file, id |-> "",
              result |-> extractImageMetadata(file)]
  /\ calls' = calls + 1
  /\ UNCHANGED <<local, session, comp, pipe, now, tab, actions, faults, form, hyd>>

CallValidate(file, stationId) ==
  /\ calls < MaxCalls
  /\ call' = [op |-> "validateImageDate", arg |-> file, id |-> stationId,
              result |-> validateImageDate(file, stationId, now)]
  /\ calls' = calls + 1
  /\ UNCHANGED <<local, session, comp, pipe, now, tab, actions, faults, form, hyd>>

HelperNext ==
  \/ \E raw \in TypedTexts : CallSanitize(raw)
  \/ \E file \in Files : CallExtract(file)
  \/ \E file \in Files, stationId \in ValidatedIds : CallValidate(file, stationId)

SpecHelpers == HelperInit /\ [][HelperNext]_vars

----------------------------------------------------------------------------
\* Properties of the date rule (imageMetadata.ts, ImageCapture.handlePick)

\* the file carries a capture timestamp that is not within the current day:
\* a date of another day, or a timestamp that is no date at all
DatedOffDay(file, t) ==
  \/ file.exif = "invalid"
  \/ file.exif = "date" /\ startOfDay(file.ts) # startOfDay(t)

\* C1: for every competitor id and every image whose capture timestamp exists
\* and is outside the current calendar day, the validator answers isValid =
\* FALSE with status "invalid", whatever the hour of the timestamp; and the
\* gallery capture of such an image on a competitor card ends at the
\* validator: the error is shown, nothing goes on to compression.
C1_OffDayGalleryRejected ==
  /\ \A i \in 1..20 : \A file \in Files :
       DatedOffDay(file, now) =>
         LET validation == validateImageDate(file, stationIdForIndex(i), now)
         IN /\ validation.isValid = FALSE
            /\ validation.status = Some("invalid")
  /\ \A k \in UnitKeys :
       /\ StartsWithCompetitor(k[2])
       /\ pipe[k].source = "gallery"
       /\ DatedOffDay(pipe[k].file, now)
       => pipe[k].pc \in {"extract", "validate"}

\* a competitor card shows the rejection of an image taken on another day
C1_Witness ==
  \E k \in UnitKeys :
    /\ StartsWithCompetitor(k[2])
    /\ pipe[k].pc = "idle"
    /\ comp[k].validationError # None
    /\ comp[k].validationError[1][1] = "Esta imagem foi tirada em "
    /\ comp[k].preview = None
    /\ ~comp[k].isProcessing

\* the file carries a capture date, or no capture date, or no metadata.  The
\* other case, a timestamp field that is no date, ends every capture in the
\* extraction step (toISOString throws), before the source and the station
\* are looked at.
WellDated(file) == file.exif # "invalid"

\* the metadata record a tier holds for the unit, as saveImageBlob wrote it
HoldsMetadata(store, k, metadata) ==
  store[metadataKey(k[1], k[2])] = Some(JsonStringify(metadata))

\* what every step does with a camera capture on a competitor card
C2_CameraStep ==
  \A k \in UnitKeys :
    /\ StartsWithCompetitor(k[2])
    /\ pipe[k].pc # "idle"
    /\ pipe[k].source = "camera"
    /\ WellDated(pipe[k].file)
    => /\ pipe[k].pc # "validate"
       /\ pipe'[k].pc # "validate"
       /\ pipe[k].pc = "extract" /\ pipe'[k].pc # "extract"
          => /\ pipe'[k].pc = "compress"
             /\ pipe'[k].metadata.validationStatus = Some("validated")
       /\ pipe[k].pc = "compress" /\ pipe'[k].pc # "compress"
                                   /\ pipe[k].file.decode = "ok"
          => /\ pipe'[k].pc = "save"
             /\ pipe'[k].blob # None
       /\ pipe[k].pc = "save" /\ pipe'[k].pc = "finish"
          => /\ pipe[k].metadata.validationStatus = Some("validated")
             /\ \/ HoldsMetadata(local', k, pipe[k].metadata)
                \/ HoldsMetadata(session', k, pipe[k].metadata)

IsDateRejection(c) ==
  /\ c.validationError # None
  /\ c.validationError[1][1] \in
       { "Não foi possível verificar os metadados da imagem",
         "Não foi possível verificar a data da imagem",
         "Esta imagem foi tirada em " }

\* what every step does with a capture on the reference card
C3_ReferenceStep ==
  /\ \A file \in Files : validateImageDate(file, "reference", now).isValid
  /\ \A k \in UnitKeys :
       k[2] = "reference"
       => /\ ~IsDateRejection(comp[k])
          /\ ~IsDateRejection(comp'[k])
          /\ pipe[k].pc # "idle" /\ WellDated(pipe[k].file)
             => /\ pipe[k].pc # "validate"
                /\ pipe'[k].pc # "validate"
                /\ pipe[k].pc = "extract" /\ pipe'[k].pc # "extract"
                   => /\ pipe'[k].pc = "compress"
                      /\ pipe'[k].metadata.validationStatus = Some("validated")
                /\ pipe[k].pc = "save" /\ pipe'[k].pc = "finish"
                   => /\ pipe[k].metadata.validationStatus = Some("validated")
                      /\ \/ HoldsMetadata(local', k, pipe[k].metadata)
                         \/ HoldsMetadata(session', k, pipe[k].metadata)

C4_RejectionStep ==
  \A k \in UnitKeys :
    pipe[k].pc = "validate"
    => /\ pipe[k].source = "gallery" /\ StartsWithCompetitor(k[2])
       /\ pipe'[k].pc \in {"validate", "compress", "idle"}
       /\ pipe'[k].pc = "compress"
          => validateImageDate(pipe[k].file, k[2], now).isValid
       /\ pipe'[k].pc = "idle"
          => /\ ~validateImageDate(pipe[k].file, k[2], now).isValid
             /\ local' = local
             /\ session' = session
             /\ HasStation(local, k, now)
                => StationOf(local', k, now) = StationOf(local, k, now)
             /\ comp'[k].preview = comp[k].preview
             /\ pipe'[k].blob = None
             /\ pipe[k].alive
                => /\ comp'[k].validationError # None
                   /\ comp'[k].validationSuggestion # None
                   /\ ~comp'[k].isProcessing

\* C4: the step in which the validator invalidates a gallery capture on a
\* competitor card leaves everything that was there before: neither tier of
\* the blob store changes, the Application State (and with it the card's
\* photo, metadata, prices and noChange) does not change, the preview does not
\* change; the card shows an error and a suggestion and is no longer
\* processing; the capture is over, so compression never starts for it.
C4_RejectionLeavesStateUntouched == [][C4_RejectionStep]_vars

\* a competitor card whose price was typed before the rejected capture: the
\* rejection and its suggestion are shown, the price is still there, nothing
\* is stored for the card
C4_Witness ==
  \E k \in UnitKeys :
    /\ StartsWithCompetitor(k[2])
    /\ pipe[k].pc = "idle"
    /\ IsDateRejection(comp[k])
    /\ comp[k].validationSuggestion = Some("Use a câmera para tirar uma foto atual")
    /\ StationOf(local, k, now).prices["vista"]["etanol"] = <<"1", ",", "2", "3">>
    /\ StationOf(local, k, now).photoBase64 = <<>>
    /\ local[imageKey(k[1], k[2])] = None
    /\ session[imageKey(k[1], k[2])] = None

----------------------------------------------------------------------------
\* Properties of the hybrid blob store (imagesDB.ts)

\* the text saveImageBlob stores for a blob
StoredTextOf(blob) == dataURLToBase64(blobToDataURL(blob))

\* some of the primary writes of a save throws / every secondary write is taken
PrimaryFails(fail, metadata) == fail.li \/ (metadata # None /\ fail.lm)
SecondaryAccepts(fail, metadata) == ~fail.si /\ (metadata = None \/ ~fail.sm)

\* what get answers in the state a completed save leaves
C5_RoundTripStep ==
  call'.op = "save" /\ ~call'.raised
  => LET got == getImageBlob(local', session', call'.key, NoTierFailure)
     IN /\ ~got.raised
        /\ got.value # None
        /\ got.value[1].bytes = call'.blob[1].bytes

\* C5: round trip through the blob store.  In the state a save leaves when it
\* completes without raising, get of the same key answers a blob whose bytes
\* are the bytes just saved, whatever both tiers held under the key before
\* and whichever tier took the write.
C5_SaveThenGetRoundTrip == [][C5_RoundTripStep]_vars

\* what a save leaves in the two tiers
C6_SaveStep ==
  call'.op = "save"
  => LET key == call'.key
         text == StoredTextOf(call'.blob[1])
         metadata == call'.metadata
         fail == call'.failSave
         written(store) ==
           /\ store[key] = Some(text)
           /\ metadata # None
              => store[MetaKeyOf(key)] = Some(JsonStringify(metadata[1]))
     IN /\ ~PrimaryFails(fail, metadata)
           => /\ ~call'.raised
              /\ ~call'.fallback
              /\ written(local')
              /\ session' = session
        /\ PrimaryFails(fail, metadata) /\ SecondaryAccepts(fail, metadata)
           => /\ ~call'.raised
              /\ call'.fallback
              /\ written(session')
        /\ \A k \in Keys \ {key, MetaKeyOf(key)} :
             local'[k] = local[k] /\ session'[k] = session[k]

\* C6: save writes the primary tier first.  When the primary writes succeed
\* the primary tier holds the text and the metadata and the secondary tier is
\* not touched; when a primary write throws and the secondary tier takes the
\* writes, save completes without raising and the secondary tier holds the
\* text under the img key and the metadata under the meta key.
C6_SaveFallsBackToSecondary == [][C6_SaveStep]_vars

\* a save with metadata that the secondary tier took after the primary tier
\* refused it, while the primary tier still holds what it held before
C6_Witness ==
  /\ call.op = "save"
  /\ call.fallback
  /\ ~call.raised
  /\ call.metadata # None
  /\ session[call.key] = Some(StoredTextOf(call.blob[1]))
  /\ session[MetaKeyOf(call.key)] = Some(JsonStringify(call.metadata[1]))
  /\ local[call.key] # session[call.key]

\* neither the img nor the meta record of the key is in the tier
HoldsNothing(store, key) == store[key] = None /\ store[MetaKeyOf(key)] = None

\* no img: or meta: record is in the tier
HoldsNoImages(store) ==
  \A k \in Keys : IsImgKey(k) \/ IsMetaKey(k) => store[k] = None

\* every key that is neither an img: nor a meta: key is as it was
OtherKeysKept(store, before) ==
  \A k \in Keys : ~(IsImgKey(k) \/ IsMetaKey(k)) => store[k] = before[k]

\* what remove and clear leave in the two tiers
C8_RemoveClearStep ==
  /\ call'.op = "remove"
     => /\ ~call'.raised
        /\ ~call'.failTier.l => HoldsNothing(local', call'.key)
        /\ ~call'.failTier.s => HoldsNothing(session', call'.key)
        /\ \A k \in Keys \ {call'.key, MetaKeyOf(call'.key)} :
             local'[k] = local[k] /\ session'[k] = session[k]
  /\ call'.op = "clear"
     => /\ ~call'.raised
        /\ ~call'.failTier.l => HoldsNoImages(local')
        /\ ~call'.failTier.s => HoldsNoImages(session')
        /\ OtherKeysKept(local', local)
        /\ OtherKeysKept(session', session)

\* C8: remove and clear try both tiers whatever happens in either.  Neither
\* raises; a tier that does not fail is emptied of the key's img and meta
\* records (remove) or of every img: and meta: record (clear) even when the
\* other tier fails; records under other keys stay as they were.
C8_RemoveAndClearAttemptBothTiers == [][C8_RemoveClearStep]_vars

\* what a tier's img record is once fetched, and what its meta record parses to
ImageRecord(text) == Some(FetchJpeg(text))
MetaRecord(text) == IF JsonParses(text) THEN Some(JsonParse(text)) ELSE None

\* what get and getMetadata answer
C9_GetStep ==
  /\ call'.op \in {"get", "getMetadata"} => ~call'.raised
  /\ call'.op = "get" /\ call'.failTier = NoTierFailure
     => call'.result =
          IF local[call'.key] # None THEN ImageRecord(local[call'.key][1])
          ELSE IF session[call'.key] # None THEN ImageRecord(session[call'.key][1])
          ELSE None
  /\ call'.op = "getMetadata" /\ call'.failTier = NoTierFailure
     => LET mk == MetaKeyOf(call'.key)
        IN call'.result =
             IF local[mk] # None THEN MetaRecord(local[mk][1])
             ELSE IF session[mk] # None THEN MetaRecord(session[mk][1])
             ELSE None
  /\ call'.op \in {"get", "getMetadata"} /\ call'.failTier.l
     => call'.result = None

\* C9: get and getMetadata never raise, also when a tier cannot be read or
\* the stored metadata does not parse.  When both tiers can be read they
\* answer the primary tier's record if the primary tier has one, else the
\* secondary tier's record, else nothing; a metadata record that does not
\* parse is answered as nothing.
C9_GetPrefersPrimary == [][C9_GetStep]_vars

\* a get that found the key in both tiers with different bytes and answered
\* the primary tier's
C9_Witness ==
  /\ call.op = "get"
  /\ call.failTier = NoTierFailure
  /\ local[call.key] # None
  /\ session[call.key] # None
  /\ local[call.key] # session[call.key]
  /\ call.result = ImageRecord(local[call.key][1])

----------------------------------------------------------------------------
\* Properties of a capture's last steps (ImageCapture.handlePick, CardStation)

\* the card shows the generic processing error and is no longer processing
ShowsGenericError(c) ==
  /\ c.validationError = Some(<<"Erro ao processar a imagem">>)
  /\ c.validationSuggestion # None
  /\ ~c.isProcessing

\* what the steps out of a failed save and a failed compression do
C7_FailureStep ==
  \A k \in UnitKeys :
    /\ pipe[k].pc = "save"
       => /\ \A fail \in SaveFailures :
               LET metadata == Some(pipe[k].metadata)
                   saved == saveImageBlob(local, session, imageKey(k[1], k[2]),
                                          pipe[k].blob, metadata, fail)
               IN /\ PrimaryFails(fail, metadata) /\ ~SecondaryAccepts(fail, metadata)
                     => saved.raised
                  /\ pipe[k].blob # None
                     /\ ~(PrimaryFails(fail, metadata) /\ ~SecondaryAccepts(fail, metadata))
                     => ~saved.raised
          /\ pipe'[k].pc \in {"save", "finish", "idle"}
          /\ pipe'[k].pc = "idle"
             => /\ local'[STORAGE_KEY] = local[STORAGE_KEY]
                /\ comp'[k].preview = comp[k].preview
                /\ pipe[k].alive => ShowsGenericError(comp'[k])
    /\ pipe[k].pc = "compress" /\ pipe'[k].pc = "idle"
       => /\ pipe[k].file.decode = "fail"
          /\ local' = local
          /\ session' = session
          /\ comp'[k].preview = comp[k].preview
          /\ pipe[k].alive => ShowsGenericError(comp'[k])

\* C7: a save that both tiers refuse raises to its caller, and a save that
\* some tier takes does not.  The capture whose save raised ends there: the
\* error is shown, the preview is as it was, the Application State (and with
\* it the card's photo and metadata) is as it was.  A capture whose
\* compression fails ends the same way, and neither tier is written.
C7_FailedSaveOrCompressionDiscards == [][C7_FailureStep]_vars

\* a capture ended by a save that both tiers refused: the primary tier took
\* the bytes and refused the metadata, the secondary tier refused the bytes
C7_Witness ==
  \E k \in UnitKeys :
    /\ pipe[k].pc = "idle"
    /\ ShowsGenericError(comp[k])
    /\ comp[k].preview = None
    /\ local[imageKey(k[1], k[2])] # None
    /\ local[metadataKey(k[1], k[2])] = None
    /\ HoldsNothing(session, imageKey(k[1], k[2]))
    /\ local[STORAGE_KEY] = None

\* what the last step of a capture leaves in the Station Record
C10_FinishStep ==
  \A k \in UnitKeys :
    /\ pipe[k].pc = "finish"
    /\ pipe'[k].pc = "idle"
    /\ faults' = 0
    => LET record == StationOf(local', k, now)
       IN /\ record.photoBase64 = StoredTextOf(pipe[k].blob[1])
          /\ record.metadata = Some(pipe[k].metadata)

\* C10: the last step of a capture that met no failure leaves the card's
\* Station Record, as persisted in the Application State, with the photo
\* payload equal to the text of the compressed bytes just saved and with the
\* metadata just saved.
C10_RecordHoldsPhotoAndMetadata == [][C10_FinishStep]_vars

----------------------------------------------------------------------------
\* Properties of the application state store (localStorage.ts)

\* the aggregate the key holds, as written
PersistedState(loc) == JsonParse(loc[STORAGE_KEY][1])

\* what readAppState answers for a key that holds no usable aggregate
C15_ReadStep ==
  /\ call'.op = "read"
  /\ call'.before \in MissingTexts \cup CorruptTexts \cup MalformedTexts
  => /\ ~call'.raised
     /\ call'.result = Some(buildDefaultState(1, now))

\* C15: readAppState never raises, and for a key that is missing, that holds
\* text that does not parse, or that holds an aggregate lacking parts, it
\* answers the default aggregate: count 1, reference and competitor_1 with
\* their default names and empty records in both periods.
C15_ReadRecoversDefault == [][C15_ReadStep]_vars

\* a Station Record with the noChange flag and the eight price fields
CompleteRecord(r) ==
  /\ "noChange" \in DOMAIN r
  /\ "prices" \in DOMAIN r
  /\ \A pt \in PriceTypes :
       /\ pt \in DOMAIN r.prices
       /\ \A f \in Fuels : f \in DOMAIN r.prices[pt]

\* every station of the count has a name and a complete record in both periods
CompleteState(state) ==
  \A i \in 0..state.config.concorrentesCount :
    LET id == stationIdForIndex(i)
    IN /\ id \in DOMAIN state.meta.names
       /\ \A p \in Periods :
            /\ id \in DOMAIN state.periods[p].stations
            /\ CompleteRecord(state.periods[p].stations[id])

\* what readAppState answers for a key that holds an aggregate that parses
C16_ReadStep ==
  /\ call'.op = "read"
  /\ call'.before # None
  /\ JsonParses(call'.before[1])
  => CompleteState(call'.result[1])

\* C16: for every persisted aggregate that parses, the state readAppState
\* answers has, for every station id of indices 0..concorrentesCount, a name
\* and a Station Record in both periods, each record with a noChange flag and
\* all eight price fields, also when the stored parts lack some of them.
C16_ReadFillsEveryKey == [][C16_ReadStep]_vars

\* what a completed setConcorrentesCount(n) with n other than the count leaves
C17_SetCountStep ==
  LET old == readAppState(local, now)
      n == call'.arg
  IN /\ call'.op = "setCount"
     /\ ~call'.raised
     /\ n # old.config.concorrentesCount
     => LET new == PersistedState(local')
        IN /\ new.config.concorrentesCount = n
           /\ \A i \in 0..n :
                LET id == stationIdForIndex(i)
                IN /\ id \in DOMAIN new.meta.names
                   /\ new.meta.names[id] =
                        IF id \in DOMAIN old.meta.names THEN old.meta.names[id]
                        ELSE defaultNameForIndex(i)
                   /\ \A p \in Periods :
                        /\ id \in DOMAIN new.periods[p].stations
                        /\ new.periods[p].stations[id] =
                             IF id \in DOMAIN old.periods[p].stations
                               THEN old.periods[p].stations[id]
                               ELSE emptyStation
           /\ \A i \in (n + 1)..20 :
                LET id == stationIdForIndex(i)
                IN /\ id \notin DOMAIN new.meta.names
                   /\ \A p \in Periods : id \notin DOMAIN new.periods[p].stations

\* C17: a completed setConcorrentesCount(n), 1 <= n <= 10 and n other than the
\* current count, persists count n; the reference station and every slot
\* 1..n that was there keep their name and their records of both periods,
\* every slot 1..n that was not there gets its default name and an empty
\* record in both periods; no slot n+1..20 keeps a name or a record.
C17_SetCountAddsAndDeletes == [][C17_SetCountStep]_vars

\* five used competitors cut to two: slots 1 and 2 as they were, 3..5 gone
C17_Witness ==
  /\ call.op = "setCount"
  /\ call.arg = 2
  /\ ~call.raised
  /\ call.before = Some(JsonStringify(UsedState(5)))
  /\ PersistedState(local).periods["tarde"].stations["competitor_2"] = FilledStation
  /\ PersistedState(local).meta.names["competitor_2"] = GivenName(2)
  /\ "competitor_3" \notin DOMAIN PersistedState(local).meta.names

\* the last three count changes were 5, 2, 5 and none of them raised
LastCounts525(log) ==
  /\ Len(log) >= 3
  /\ LET n == Len(log)
     IN /\ log[n - 2].count = 5 /\ ~log[n - 2].raised
        /\ log[n - 1].count = 2 /\ ~log[n - 1].raised
        /\ log[n].count = 5 /\ ~log[n].raised

\* C18: right after setConcorrentesCount(5), (2), (5), whatever the key held
\* before, slots 3, 4 and 5 have their default names and empty records
\* (blank prices, empty photo, noChange false, no metadata) in both periods,
\* in the persisted aggregate and in what readAppState answers.
C18_CountRoundTripRestoresDefaults ==
  call.op = "setCount" /\ LastCounts525(call.log)
  => \A i \in 3..5 :
       LET id == stationIdForIndex(i)
       IN /\ PersistedState(local).meta.names[id] = defaultNameForIndex(i)
          /\ readAppState(local, now).meta.names[id] = defaultNameForIndex(i)
          /\ \A p \in Periods :
               /\ PersistedState(local).periods[p].stations[id] = emptyStation
               /\ readAppState(local, now).periods[p].stations[id] = emptyStation

\* the sequence run on five used competitors: slot 4 held a filled record and
\* a given name before the cut to two
C18_Witness ==
  /\ call.op = "setCount"
  /\ LastCounts525(call.log)
  /\ Len(call.log) = 3
  /\ call.log[1].before = Some(JsonStringify(UsedState(5)))
  /\ JsonParse(call.log[2].before[1]).periods["manha"].stations["competitor_4"]
       = FilledStation
  /\ PersistedState(local).periods["manha"].stations["competitor_4"] = emptyStation

\* what a completed clearPeriodData(period) leaves
C19_ClearPeriodStep ==
  LET old == readAppState(local, now)
      period == call'.arg
  IN call'.op = "clearPeriod" /\ ~call'.raised
     => LET new == PersistedState(local')
        IN /\ DOMAIN new.periods[period].stations = DOMAIN old.periods[period].stations
           /\ \A id \in DOMAIN new.periods[period].stations :
                new.periods[period].stations[id] = emptyStation
           /\ \A p \in Periods \ {period} : new.periods[p] = old.periods[p]
           /\ new.meta.names = old.meta.names
           /\ new.meta.lastSent = old.meta.lastSent
           /\ new.config = old.config
           /\ readAppState(local', now) = [new EXCEPT !.meta.lastEdited = @]

\* C19: a completed clearPeriodData(period) persists an aggregate in which
\* every Station Record of the period is the empty record (eight blank
\* prices, empty photo, noChange false, no metadata), and in which the names,
\* the count, the webhook URL, lastSent and every Station Record of the other
\* period are as they were.
C19_ClearPeriodResetsOnlyThatPeriod == [][C19_ClearPeriodStep]_vars

\* the morning of five used competitors cleared, the afternoon still filled
C19_Witness ==
  /\ call.op = "clearPeriod"
  /\ call.arg = "manha"
  /\ ~call.raised
  /\ call.before = Some(JsonStringify(UsedState(5)))
  /\ PersistedState(local).periods["manha"].stations["competitor_5"] = emptyStation
  /\ PersistedState(local).periods["tarde"].stations["competitor_5"] = FilledStation
  /\ PersistedState(local).config.webhookUrl = Some(StoredWebhookUrl)

\* the first of the candidates that is a non-empty text
FirstNonEmpty(candidates) ==
  candidates[CHOOSE i \in DOMAIN candidates :
               /\ Truthy(candidates[i])
               /\ \A j \in 1..(i - 1) : ~Truthy(candidates[j])]

\* what getWebhookUrl answers
C20_GetWebhookStep ==
  call'.op = "getWebhook"
  => LET internal == call'.arg.internal
         env == call'.arg.env
         stored == readAppState(local, now).config.webhookUrl
     IN /\ call'.result =
             FirstNonEmpty(<<internal, env.next, env.react, env.vite, stored,
                             Some(DEFAULT_WEBHOOK_URL)>>)
        /\ call'.result # None
        /\ call'.result[1] # <<>>
        /\ (~Truthy(internal) /\ ~Truthy(EnvUrl(env)) /\ ~Truthy(stored))
           => call'.result = Some(DEFAULT_WEBHOOK_URL)

\* C20: getWebhookUrl answers the first non-empty of the compiled-in override,
\* the environment's URL, the URL stored in the Application State and the
\* default endpoint; with none of the first three it answers the default
\* endpoint; it never answers an empty or absent URL.
C20_WebhookPrecedence == [][C20_GetWebhookStep]_vars

\* a build without override, in an environment without URL, over a key that
\* holds no aggregate: the default endpoint is answered
C20_Witness ==
  /\ call.op = "getWebhook"
  /\ ~Truthy(call.arg.internal)
  /\ ~Truthy(EnvUrl(call.arg.env))
  /\ call.before = None
  /\ call.result = Some(DEFAULT_WEBHOOK_URL)

----------------------------------------------------------------------------
\* Properties of the capture unit (ImageCapture.tsx)

\* what the tiers answer for the unit's key
StoredBlob(k) ==
  getImageBlob(local, session, imageKey(k[1], k[2]), NoTierFailure).value
StoredMeta(k) ==
  getImageMetadata(local, session, imageKey(k[1], k[2]), NoTierFailure).value

\* what the hydrate of a unit leaves, and when no hydrate is under way
C11_HydrateStep ==
  \A k \in UnitKeys :
    /\ /\ Hydrate(k)
       /\ StationOf(local, k, now).photoBase64 = <<>>
       /\ StoredBlob(k) # None
       /\ StoredMeta(k) # None
       => LET record == StationOf(local', k, now)
          IN /\ comp'[k].preview # None
             /\ record.photoBase64 = Base64Encode(StoredBlob(k)[1].bytes)
             /\ record.metadata = StoredMeta(k)
    /\ Mounted(k, local', tab', now) /\ comp'[k].preview = None
         /\ local'[imageKey(k[1], k[2])] = None
         /\ session'[imageKey(k[1], k[2])] = None
       => comp'[k].hydrate = None

\* C11: the hydrate of a unit whose Station Record has no photo, over a store
\* that holds bytes and metadata for its key, leaves the preview set and the
\* Station Record with the stored bytes as photo and the stored metadata as
\* metadata; over a store that holds nothing for the key no hydrate is under
\* way, so neither the preview nor the Station Record changes.
C11_HydrateRestoresPhotoAndMetadata == [][C11_HydrateStep]_vars

\* what a clear() that ran to its end leaves
C12_ClearStep ==
  \A k \in UnitKeys : \A failTier \in TierFailures :
    Clear(k, failTier, "none")
    => LET before == StationOf(local, k, now)
           after == StationOf(local', k, now)
       IN /\ HoldsNothing(local', imageKey(k[1], k[2]))
          /\ HoldsNothing(session', imageKey(k[1], k[2]))
          /\ comp'[k].preview = None
          /\ comp'[k].validationError = None
          /\ comp'[k].validationSuggestion = None
          /\ after.photoBase64 = <<>>
          /\ after.metadata = None
          /\ after.prices = before.prices
          /\ after.noChange = before.noChange

\* C12: after a clear() of a unit that ran to its end, neither tier holds the
\* img or the meta record of the unit's key, the unit shows no preview, no
\* error and no suggestion, the Station Record has an empty photo and no
\* metadata, and its eight prices and its noChange flag are as before.
C12_ClearRemovesPhotoKeepsPrices == [][C12_ClearStep]_vars

\* the two outcomes of a capture
Previewed(c) == c.preview # None /\ c.validationError = None
ErrorShown(c, previewBefore) == c.validationError # None /\ c.preview = previewBefore

\* what the steps of a mounted unit do to its preview and its error
C13_UnitStep ==
  \A k \in UnitKeys :
    /\ pipe[k].pc # "idle" /\ pipe'[k].pc = "idle" /\ pipe[k].alive
       => /\ ~comp'[k].isProcessing
          /\ Previewed(comp'[k]) \/ ErrorShown(comp'[k], comp[k].preview)
    /\ /\ tab' = tab
       /\ Mounted(k, local, tab, now)
       /\ Mounted(k, local', tab, now)
       /\ comp[k].preview # None
       /\ comp'[k].preview = None
       => \E failTier \in TierFailures, failApp \in AppFailures :
            Clear(k, failTier, failApp)
    /\ pipe[k].pc = "idle" /\ pipe'[k].pc # "idle"
       => /\ comp'[k].isProcessing
          /\ comp'[k].validationError = None
          /\ comp'[k].validationSuggestion = None

\* C13: the unit goes Empty -> Processing -> Previewed or ErrorShown.  The
\* step in which a capture of a mounted unit ends leaves it not processing
\* and in exactly one of two states: a preview and no error, or an error and
\* the preview as it was before the step; a mounted unit loses its preview
\* only in a clear(); the step that starts a capture clears the error.
C13_CaptureStateMachine == [][C13_UnitStep]_vars

\* the stages of a capture in their order
StageOrder ==
  { <<"idle", "extract">>, <<"extract", "validate">>, <<"extract", "compress">>,
    <<"extract", "idle">>, <<"validate", "compress">>, <<"validate", "idle">>,
    <<"compress", "save">>, <<"compress", "idle">>, <<"save", "finish">>,
    <<"save", "idle">>, <<"finish", "idle">> }

\* what the steps of one capture do, stage by stage
C14_StageStep ==
  \A k \in UnitKeys :
    pipe'[k].pc # pipe[k].pc
    => /\ <<pipe[k].pc, pipe'[k].pc>> \in StageOrder
       /\ pipe'[k].pc = "validate"
          => pipe'[k].source = "gallery" /\ StartsWithCompetitor(k[2])
       /\ pipe[k].pc = "extract" /\ pipe'[k].pc = "compress"
          => ~(pipe[k].source = "gallery" /\ StartsWithCompetitor(k[2]))
       /\ pipe[k].pc # "finish"
          => /\ comp'[k].preview = comp[k].preview
             /\ local'[STORAGE_KEY] = local[STORAGE_KEY]
       /\ pipe[k].pc \notin {"save", "finish"}
          => /\ local' = local
             /\ session' = session
       /\ pipe'[k].pc = "finish"
          => \E store \in {local', session'} :
               /\ store[imageKey(k[1], k[2])] = Some(StoredTextOf(pipe[k].blob[1]))
               /\ HoldsMetadata(store, k, pipe[k].metadata)

\* C14: one capture goes through extraction, validation (a gallery capture on
\* a competitor card, and only such a capture), compression and the save in
\* that order, one step after the other; no step before the save writes a
\* tier, no step before the last one changes the preview or the Application
\* State; the last step is reached only with the bytes and the metadata
\* held by a tier.
C14_StagesInOrder == [][C14_StageStep]_vars

\* a gallery capture on a competitor card that was validated, compressed and
\* saved: the primary tier holds it, the preview and the record do not yet
C14_Witness ==
  \E k \in UnitKeys :
    /\ pipe[k].pc = "finish"
    /\ pipe[k].source = "gallery"
    /\ StartsWithCompetitor(k[2])
    /\ local[imageKey(k[1], k[2])] = Some(StoredTextOf(pipe[k].blob[1]))
    /\ HoldsMetadata(local, k, pipe[k].metadata)
    /\ comp[k].preview = None
    /\ StationOf(local, k, now).photoBase64 = <<>>

----------------------------------------------------------------------------
\* Properties of the helpers

\* the first three digits of a text, in order
FirstDigits(raw) ==
  LET all == SelectSeq(raw, IsDigit)
  IN IF Len(all) > 3 THEN <<all[1], all[2], all[3]>> ELSE all

\* d, d,d or d,dd: a comma after the first digit, digits elsewhere
PriceShaped(text) ==
  /\ Len(text) \in {0, 1, 3, 4}
  /\ \A i \in 1..Len(text) : IF i = 2 THEN text[i] = "," ELSE IsDigit(text[i])

\* C25: the sanitizer hands the "Sem dados" text back unchanged; of every
\* other text it keeps the first three digits in order, drops the rest, and
\* puts a comma after the first digit when there are two or three; a text
\* without a digit becomes empty; sanitizing a result again changes nothing.
C25_PriceSanitization ==
  call.op = "sanitizePrice" =>
    /\ call.arg = NoData => call.result = NoData
    /\ call.arg # NoData =>
         /\ PriceShaped(call.result)
         /\ SelectSeq(call.result, IsDigit) = FirstDigits(call.arg)
         /\ SelectSeq(call.arg, IsDigit) = <<>> => call.result = <<>>
    /\ sanitizePrice(call.result) = call.result

\* a text with a fourth digit and pieces that are no digits, cut to d,dd
C25_Witness ==
  /\ call.op = "sanitizePrice"
  /\ call.arg # NoData
  /\ Len(SelectSeq(call.arg, IsDigit)) > 3
  /\ \E i \in 1..Len(call.arg) : ~IsDigit(call.arg[i])
  /\ Len(call.result) = 4

\* C27: the extractor answers null when the parser throws and never hands
\* the throw on; the validator answers a result for every file and station,
\* and for a competitor a failure inside it (the parser throwing, the date
\* that cannot be formatted) is a result with isValid false and status
\* 'invalid'.
C27_HelpersNeverRaise ==
  /\ call.op = "extractImageMetadata" =>
       /\ call.result # Raised
       /\ exifrParse(call.arg) = Raised => call.result = None
  /\ call.op = "validateImageDate" =>
       /\ call.result.isValid \in BOOLEAN
       /\ StartsWithCompetitor(call.id) /\ call.arg.exif \in {"throws", "invalid"}
            => ~call.result.isValid /\ call.result.status = Some("invalid")

\* the validator called for a competitor with a file whose date is no date
C27_Witness ==
  /\ call.op = "validateImageDate"
  /\ StartsWithCompetitor(call.id)
  /\ call.arg.exif = "invalid"
  /\ call.result.reason = Some(<<"Erro ao processar a imagem">>)

----------------------------------------------------------------------------
\* Properties of the validation of gallery pictures

\* the extractor finds nothing, or finds no capture timestamp
Undated(file) ==
  LET metadata == extractImageMetadata(file)
  IN metadata = None \/ metadata[1].dateTime = None

CannotVerify ==
  { Some(<<"Não foi possível verificar os metadados da imagem">>),
    Some(<<"Não foi possível verificar a data da imagem">>) }

\* the validation step of a capture whose file is undated, and the stages
\* after the validation
C26_UndatedStep ==
  \A k \in UnitKeys :
    /\ pipe[k].pc = "validate" /\ pipe'[k].pc # "validate" /\ Undated(pipe[k].file)
       => LET validation == validateImageDate(pipe[k].file, k[2], now)
          IN /\ ~validation.isValid
             /\ validation.status = Some("invalid")
             /\ validation.reason \in CannotVerify
             /\ validation.suggestion = Some("Use a câmera para tirar uma foto atual")
             /\ pipe'[k].pc = "idle"
             /\ local' = local
             /\ session' = session
             /\ pipe[k].alive
                  => /\ comp'[k].validationError = validation.reason
                     /\ comp'[k].validationSuggestion = validation.suggestion
    /\ /\ pipe'[k].pc \in {"compress", "save", "finish"}
       /\ pipe'[k].source = "gallery"
       /\ StartsWithCompetitor(k[2])
       => ~Undated(pipe'[k].file)

\* C26: for a competitor, a file in which the extractor finds nothing or no
\* capture timestamp is answered with isValid false, status 'invalid', a
\* cannot-verify reason and the use-the-camera suggestion; the capture ends
\* there with nothing written, and no gallery capture of a competitor card
\* goes on to compression or the save with such a file.
C26_UndatedGalleryRejected == [][C26_UndatedStep]_vars

\* a gallery picture with metadata but no capture date, rejected on a
\* competitor card
C26_Witness ==
  \E k \in UnitKeys :
    /\ StartsWithCompetitor(k[2])
    /\ comp[k].validationError = Some(<<"Não foi possível verificar a data da imagem">>)
    /\ pipe[k].pc = "idle"
    /\ local[imageKey(k[1], k[2])] = None
    /\ session[imageKey(k[1], k[2])] = None

----------------------------------------------------------------------------
\* Properties of the capture triggers

\* the camera and gallery triggers of a card are rendered and enabled
TriggersOffered(k) ==
  /\ Mounted(k, local, tab, now)
  /\ comp[k].preview = None
  /\ ~comp[k].isProcessing

\* C28: while a handlePick call runs for a (period, station) key, the form
\* offers no enabled trigger for that key, so no second call can start.
C28_OneCapturePerKey ==
  \A k \in UnitKeys : pipe[k].pc # "idle" => ~TriggersOffered(k)

\* some card shows Processing, or some handlePick call runs
Busy == \E k \in UnitKeys : comp[k].isProcessing \/ pipe[k].pc # "idle"

\* C29: whenever a card shows Processing or a handlePick call runs, a state
\* follows in which no card shows Processing and no call runs, whatever the
\* extraction, the validation, the compression, the save or the write of the
\* Application State do; so every capture that entered Processing left it.
C29_ProcessingEnds == Busy ~> ~Busy

\* a capture that ended on a storage failure, its card no longer Processing
C29_Witness ==
  \E k \in UnitKeys :
    /\ pipe[k].pc = "idle"
    /\ ~comp[k].isProcessing
    /\ comp[k].validationError = Some(<<"Erro ao processar a imagem">>)
    /\ faults = 1


----------------------------------------------------------------------------
\* Properties of the submission

\* the Station Records a period holds in the persisted aggregate
StationsIn(loc, period) == readAppState(loc, now).periods[period].stations

\* this step ends the request in flight; and it ends it with the thanks
Settled == form.request # None /\ form'.request = None
Sent(period) ==
  /\ Settled
  /\ form.request[1].period = period
  /\ form'.toasts = Append(form.toasts, "Obrigado")

C21_SentStep ==
  /\ Sent("manha") =>
       LET morning == StationsIn(local, "manha")
           afternoon == StationsIn(local, "tarde")
           morning1 == StationsIn(local', "manha")
           afternoon1 == StationsIn(local', "tarde")
       IN /\ DOMAIN morning1 = DOMAIN morning
          /\ DOMAIN afternoon1 = DOMAIN afternoon
          /\ \A sid \in DOMAIN morning :
               /\ morning1[sid].photoBase64 = <<>>
               /\ morning1[sid].metadata = None
               /\ ~morning1[sid].noChange
               /\ morning1[sid].prices = morning[sid].prices
          /\ \A sid \in DOMAIN afternoon :
               /\ afternoon1[sid].photoBase64 = afternoon[sid].photoBase64
               /\ afternoon1[sid].metadata = afternoon[sid].metadata
               /\ sid \in DOMAIN morning =>
                    afternoon1[sid].prices = morning[sid].prices
  /\ Sent("tarde") => StationsIn(local', "manha") = StationsIn(local, "manha")

\* C21: a step that ends a morning request with success leaves, for every
\* station of both buckets, the morning prices in the afternoon record, every
\* morning record without photo and metadata and with noChange false, the
\* morning prices and the afternoon photos and metadata as they were; a step
\* that ends an afternoon request with success leaves every morning record
\* as it was
C21_SubmissionCommits == [][C21_SentStep]_vars

\* a morning submission has succeeded: the afternoon records carry the
\* morning prices next to their own photos, the morning photos are gone
C21_Witness ==
  /\ form.toasts = <<"Obrigado">>
  /\ readAppState(local, now).meta.lastSent["manha"] # None
  /\ \A sid \in getVisibleStationIds(readAppState(local, now)) :
       /\ StationsIn(local, "tarde")[sid].prices = StationsIn(local, "manha")[sid].prices
       /\ StationsIn(local, "tarde")[sid].prices["vista"]["etanol"] # <<>>
       /\ StationsIn(local, "tarde")[sid].photoBase64 # <<>>
       /\ StationsIn(local, "manha")[sid].photoBase64 = <<>>

\* what onSubmit would post for the form of `period` whose React state is
\* `state`, if it were pressed now; None when validateForm stops it
PostedBy(state, loc, ses, period) ==
  LET validation == validateForm(state, loc, ses, period, now)
  IN IF validation.threw \/ validation.errors # {} THEN None
     ELSE Some(readAppState(IF validation.updated
                              THEN saveAppState(loc, validation.currentState, now)
                              ELSE loc, now))

\* this step ends the request in flight because fetch rejected or the
\* response was not ok: the error toast, and no storage call that threw
Failed ==
  /\ Settled
  /\ form'.toasts = Append(form.toasts, "Erro ao enviar")
  /\ faults' = faults

C22_FailedStep ==
  Failed =>
    /\ local' = local
    /\ session' = session
    /\ ~form'.loading
    /\ readAppState(local, now) = form.request[1].posted =>
         PostedBy(form'.state, local', session',
                  form.request[1].period) = Some(form.request[1].posted)

\* C22: a step that ends the request in flight with a failure (fetch
\* rejected, or a response that is not 2xx) changes nothing in localStorage
\* and sessionStorage, so every Station Record, lastSent and every blob store
\* record stay as they were; it leaves the loading flag reset; and, the data
\* being what was posted, pressing submit again posts the same
C22_FailureLeavesAll == [][C22_FailedStep]_vars

\* a request has failed and left the filled form with its photos, in the
\* records and in both tiers, and nothing marked as sent
C22_Witness ==
  /\ form.toasts = <<"Erro ao enviar">>
  /\ form.request = None
  /\ ~form.loading
  /\ faults = 0
  /\ readAppState(local, now).meta.lastSent["manha"] = None
  /\ \A sid \in getVisibleStationIds(readAppState(local, now)) :
       StationsIn(local, "manha")[sid].photoBase64 # <<>>
  /\ local[imageKey("manha", "reference")] # None
  /\ session[imageKey("manha", "competitor_1")] # None
  /\ PostedBy(form.state, local, session, "manha") # None

\* what a Station Record needs for its period to be sent: a photo, and
\* "no change" ticked or a text in each of the eight price fields
Complete(val) ==
  /\ val.photoBase64 # <<>>
  /\ \/ val.noChange
     \/ \A ptype \in PriceTypes, fuel \in Fuels : val.prices[ptype][fuel] # <<>>

\* this step issues a request; this step is a press of submit that
\* validateForm stopped
Issued == form.request = None /\ form'.request # None
Refused == form'.toasts = Append(form.toasts, "Atenção!")

C23_PressStep ==
  /\ Issued =>
       LET posted == form'.request[1].posted
           period == form'.request[1].period
       IN \A id \in getVisibleStationIds(posted) :
            Complete(posted.periods[period].stations[id])
  /\ Refused =>
       /\ form'.request = None
       /\ ~form'.loading
       /\ session' = session
       /\ \A key \in Keys \ {STORAGE_KEY} : local'[key] = local[key]
       /\ readAppState(local', now).meta.lastSent = readAppState(local, now).meta.lastSent
       /\ \A p \in Periods :
            /\ DOMAIN StationsIn(local', p) = DOMAIN StationsIn(local, p)
            /\ \A id \in DOMAIN StationsIn(local, p) :
                 LET before == StationsIn(local, p)[id]
                     after == StationsIn(local', p)[id]
                 IN /\ after.prices = before.prices
                    /\ after.noChange = before.noChange
                    /\ after.metadata = before.metadata
                    /\ before.photoBase64 # <<>> =>
                         after.photoBase64 = before.photoBase64
       /\ \E id \in getVisibleStationIds(form'.state) :
            ~Complete(StationsIn(local', tab)[id])
       /\ \A id \in getVisibleStationIds(form'.state) :
            LET val == StationsIn(local', tab)[id]
            IN /\ <<id, "photoBase64">> \in form'.errors <=> val.photoBase64 = <<>>
               /\ \A ptype \in PriceTypes, fuel \in Fuels :
                    <<id, "prices", ptype, fuel>> \in form'.errors
                      <=> (~val.noChange /\ val.prices[ptype][fuel] = <<>>)

\* C23: a step that issues a request posts a state in which every visible
\* station of the period has a photo and either noChange or all eight price
\* fields filled in; a press of submit that validateForm stops sends no
\* request, clears nothing (blob store, lastSent, prices, noChange,
\* metadata and the photos there are stay), and flags exactly the photo and
\* the price fields of the visible stations that are missing
C23_SubmitValidates == [][C23_PressStep]_vars

\* submit was pressed on the form whose competitor lacks one price: no
\* request, that field flagged and nothing else
C23_Witness ==
  /\ form.toasts = <<"Atenção!">>
  /\ form.request = None
  /\ form.errors = { <<"competitor_1", "prices", "vista", "etanol">> }
  /\ StationsIn(local, "manha")["competitor_1"].photoBase64 # <<>>


----------------------------------------------------------------------------
\* Properties of the in-memory copy of the Application State

\* the configuration, the names and the period buckets of `state` are those
\* the persisted aggregate reads as
InSync(state, loc) ==
  /\ state.config = readAppState(loc, now).config
  /\ state.meta.names = readAppState(loc, now).meta.names
  /\ state.periods = readAppState(loc, now).periods

C24_WriteStep ==
  /\ local'[STORAGE_KEY] # local[STORAGE_KEY] =>
       /\ JsonParses(local'[STORAGE_KEY][1])
       /\ JsonParse(local'[STORAGE_KEY][1]).meta.lastEdited
            = Some(toISOString(<<"date", now>>))
       /\ DOMAIN JsonParse(local'[STORAGE_KEY][1]) = {"config", "meta", "periods"}
  /\ InSync(form'.state, local')

\* C24: a step that writes the Application State leaves under the storage
\* key the whole aggregate with lastEdited stamped with the time of the
\* write, and after every step (a handler that has returned) the
\* configuration, the names and the period buckets the mounted form holds
\* in memory are those of the persisted aggregate
C24_WriteNotifies == [][C24_WriteStep]_vars

\* the configuration dialog, which holds no reference to the form, has
\* changed the count: the form shows the new count, the aggregate carries
\* the new stamp
C24_Witness ==
  /\ form.state.config.concorrentesCount = 2
  /\ InSync(form.state, local)
  /\ readAppState(local, now).meta.lastEdited = Some(toISOString(<<"date", now>>))
  /\ "competitor_2" \in DOMAIN form.state.periods["manha"].stations


----------------------------------------------------------------------------
\* Properties of the clearing of a period

\* neither tier holds an img: or meta: record under the key of the unit
Purged(loc, ses, period, id) ==
  /\ loc[imageKey(period, id)] = None
  /\ loc[metadataKey(period, id)] = None
  /\ ses[imageKey(period, id)] = None
  /\ ses[metadataKey(period, id)] = None

C30_ClearPeriodStep ==
  ClearPeriod(NoTierFailure, FALSE)
  => /\ \A id \in PurgedIds \cap StationIds : Purged(local', session', tab, id)
     /\ \A key \in ImgKeys \cup MetaKeys :
          key[2] # tab => local'[key] = local[key] /\ session'[key] = session[key]
     /\ \A k \in UnitKeys :
          k[1] = tab => comp'[k].hydrate = None /\ hyd'[k] = NoRun

\* C30: a clear of the period in which no storage call throws leaves no img:
\* or meta: record of the period in either tier for the reference station
\* and the competitors, leaves the records of the other period in both tiers
\* as they were, and leaves no hydrate of a unit of the period under way, so
\* none puts a photo back into a cleared Station Record
C30_ClearPeriodPurges == [][C30_ClearPeriodStep]_vars

\* the period was cleared, both tiers hold nothing for the reference card of
\* the morning, and its Station Record has a photo again
C30_Repopulated ==
  /\ Purged(local, session, "manha", "reference")
  /\ StationsIn(local, "manha")["competitor_1"] = emptyStation
  /\ StationsIn(local, "manha")["reference"].photoBase64 # <<>>
  /\ faults = 0
  /\ pipe = [k \in UnitKeys |-> IdlePipe]


----------------------------------------------------------------------------
\* Properties of the mutations with one target

\* f and g agree everywhere but, at most, at x
SameBut(f, g, x) ==
  /\ (DOMAIN f) \ {x} = (DOMAIN g) \ {x}
  /\ \A y \in (DOMAIN f) \ {x} : f[y] = g[y]

C31_MutationStep ==
  LET old == readAppState(local, now)
      new == PersistedState(local')
      arg == call'.arg
  IN /\ call'.op \in {"updateName", "updateWebhook", "stationChange"}
          => new.meta.lastEdited = Some(toISOString(<<"date", now>>))
     /\ call'.op = "updateName"
          => /\ new.meta.names[arg[1]] = arg[2]
             /\ SameBut(new.meta.names, old.meta.names, arg[1])
             /\ new.meta.lastSent = old.meta.lastSent
             /\ new.config = old.config
             /\ new.periods = old.periods
     /\ call'.op = "updateWebhook"
          => /\ new.config.webhookUrl = arg
             /\ new.config.concorrentesCount = old.config.concorrentesCount
             /\ new.meta.names = old.meta.names
             /\ new.meta.lastSent = old.meta.lastSent
             /\ new.periods = old.periods
     /\ call'.op = "stationChange"
          => /\ new.periods[arg.period].stations[arg.id] = arg.updater
             /\ SameBut(new.periods[arg.period].stations,
                        old.periods[arg.period].stations, arg.id)
             /\ \A p \in Periods \ {arg.period} : new.periods[p] = old.periods[p]
             /\ new.meta.names = old.meta.names
             /\ new.meta.lastSent = old.meta.lastSent
             /\ new.config = old.config

\* C31: updateStationName(id, name) persists the aggregate readAppState
\* answered at the start of the call with names[id] replaced,
\* updateWebhookUrl(url) persists it with the webhook URL replaced, and
\* onStationChange(id, updater) of a period's form persists it with that
\* period's record of that station replaced; each stamps lastEdited and
\* leaves every other part as it was read
C31_MutationsChangeTheirTarget == [][C31_MutationStep]_vars

\* a station update on five used competitors: the reference record of the
\* morning is emptied, that of the afternoon and the names are as they were
C31_Witness ==
  /\ call.op = "stationChange"
  /\ call.before = Some(JsonStringify(UsedState(5)))
  /\ call.arg.period = "manha" /\ call.arg.id = "reference"
  /\ PersistedState(local).periods["manha"].stations["reference"] = emptyStation
  /\ PersistedState(local).periods["tarde"].stations["reference"] = FilledStation
  /\ PersistedState(local).meta.names["competitor_5"] = GivenName(5)


----------------------------------------------------------------------------
\* Properties of the results of the validator

\* C32: every result of validateImageDate carries the status of its verdict:
\* 'validated' when isValid is true, whatever the station id, and 'invalid'
\* when isValid is false
C32_StatusFollowsVerdict ==
  call.op = "validateImageDate"
  => /\ call.result.isValid => call.result.status = Some("validated")
     /\ ~call.result.isValid => call.result.status = Some("invalid")


----------------------------------------------------------------------------
\* Properties of the completions on the Station Record

C33_CompletionStep ==
  \A k \in UnitKeys :
    (\/ \E failApp \in AppFailures : Finish(k, failApp)
     \/ Hydrate(k))
    => /\ StationOf(local', k, now).prices = StationOf(local, k, now).prices
       /\ StationOf(local', k, now).noChange = StationOf(local, k, now).noChange

\* C33: the step that completes a capture (the notifications after the save)
\* and the step that completes a hydrate leave the eight price fields and
\* the noChange flag of the unit's Station Record as they were right before
\* the step
C33_CompletionKeepsPrices == [][C33_CompletionStep]_vars

----------------------------------------------------------------------------
\* Properties of the pairing of picture and metadata in the blob store

\* both tiers hold under the key what one complete save with metadata left
\* in the primary tier of an empty store
HoldsOneSave(loc, ses, key) ==
  /\ loc[key] = Some(Base64Encode(<<1>>))
  /\ loc[MetaKeyOf(key)] = Some(JsonStringify(StoredMetadata))
  /\ ses[key] = None
  /\ ses[MetaKeyOf(key)] = None

\* after a completed save over the records of an earlier save, get and
\* getMetadata answer from one save
C34_PairStep ==
  (call'.op = "save" /\ ~call'.raised /\ HoldsOneSave(local, session, call'.key))
  => LET got == getImageBlob(local', session', call'.key, NoTierFailure)
         meta == getImageMetadata(local', session', call'.key, NoTierFailure)
     IN /\ got.value # None
        /\ (got.value[1].bytes = call'.blob[1].bytes) => (meta.value = call'.metadata)
        /\ (got.value[1].bytes = <<1>>) => (meta.value = Some(StoredMetadata))

\* C34: the bytes get answers and the metadata getMetadata answers were
\* written by the same save.  After a save that completes over the records
\* of an earlier save, either get answers the bytes just saved and
\* getMetadata the metadata just saved (none for a save without metadata),
\* or both answer what the earlier save wrote; a fallback to the secondary
\* tier or a save without metadata never pairs the bytes of one save with
\* the metadata of the other.
C34_GetAndMetadataOfOneSave == [][C34_PairStep]_vars

----------------------------------------------------------------------------
\* Properties of a competitor slot that was removed and is visible again

\* C35: a slot removed by setConcorrentesCount and made visible again shows
\* nothing of before the removal.  The Station Record of the slot never holds
\* the picture or the metadata that were captured for it before the removal:
\* the hydrate effect of the card that mounts again restores nothing from a
\* blob store record older than the removal.
C35_RemovedCaptureStaysAway ==
  HasStation(local, RemovedUnit, now)
  => /\ StationOf(local, RemovedUnit, now).photoBase64
          # dataURLToBase64(blobToDataURL(RemovedBlob))
     /\ StationOf(local, RemovedUnit, now).metadata # Some(RemovedMetadata)

----------------------------------------------------------------------------
\* Properties of the station ids the Application State holds

\* C36: the stations held are the visible ones.  In every state the
\* competitor count is within 1..10, and the ids of each period bucket and of
\* the names map are exactly reference and competitor_1..competitor_count,
\* also after a capture or a hydrate that completes when the count was
\* lowered.
C36_HeldIdsAreVisible ==
  LET state == readAppState(local, now)
  IN /\ state.config.concorrentesCount \in 1..10
     /\ DOMAIN state.meta.names = getVisibleStationIds(state)
     /\ \A p \in Periods :
          DOMAIN state.periods[p].stations = getVisibleStationIds(state)

----------------------------------------------------------------------------
\* Properties of what a successful submission commits

C37_CommitStep ==
  \A period \in Periods :
    Sent(period) =>
      LET payload == formatPayloadForN8n(period, form.request[1].posted)
          before == StationsIn(local, period)
          afternoon1 == StationsIn(local', "tarde")
      IN \A sid \in DOMAIN before :
           /\ before[sid].photoBase64 # <<>>
              => /\ sid \in DOMAIN payload
                 /\ payload[sid].photo = before[sid].photoBase64
           /\ (period = "manha" /\ sid \in DOMAIN afternoon1)
              => /\ sid \in DOMAIN payload
                 /\ \A t \in PriceTypes, f \in Fuels :
                      normalizePrice(afternoon1[sid].prices[t][f])
                        = payload[sid].prices[t][f]

\* C37: what a successful submission commits is what it sent.  In the step
\* that ends a request with success, every photo the step clears from a
\* record of the submitted period was carried in the posted payload, and the
\* prices a morning submission copies to the afternoon are the prices of the
\* posted payload: nothing captured or edited while the request was in flight
\* is cleared or copied without having been sent.
C37_CommittedIsSent == [][C37_CommitStep]_vars

----------------------------------------------------------------------------
\* Properties of the validation status that is kept

\* the metadata records of a tier of the blob store
MetaRecordsOf(store) ==
  { store[key][1] : key \in { q \in Keys : IsMetaKey(q) /\ store[q] # None } }

\* C38: every validation status kept is 'validated'.  From an empty store,
\* every metadata record of the two tiers of the blob store parses and
\* carries validationStatus 'validated', so does the metadata of every
\* Station Record, and the payload of either period reports no status other
\* than VALIDADA: no capture that was found invalid is stored and the status
\* 'warning' is never produced.
C38_EveryStatusValidated ==
  LET state == readAppState(local, now)
  IN /\ \A text \in MetaRecordsOf(local) \cup MetaRecordsOf(session) :
          /\ JsonParses(text)
          /\ JsonParse(text).validationStatus = Some("validated")
     /\ \A p \in Periods :
          /\ \A sid \in DOMAIN state.periods[p].stations :
               LET st == state.periods[p].stations[sid]
               IN st.metadata # None
                  => st.metadata[1].validationStatus = Some("validated")
          /\ \A sid \in DOMAIN formatPayloadForN8n(p, state) :
               formatPayloadForN8n(p, state)[sid].status
                 \in {None, Some("VALIDADA")}

\* a dated picture was captured on a competitor card: its metadata is in the
\* blob store and in the Station Record, and the payload would report
\* VALIDADA
C38_Witness ==
  \E k \in UnitKeys :
    /\ StartsWithCompetitor(k[2])
    /\ HasStation(local, k, now)
    /\ StationOf(local, k, now).metadata # None
    /\ StationOf(local, k, now).metadata[1].dateTime # None
    /\ local[metadataKey(k[1], k[2])]
         = Some(JsonStringify(StationOf(local, k, now).metadata[1]))
    /\ formatPayloadForN8n(k[1], readAppState(local, now))[k[2]].status
         = Some("VALIDADA")

----------------------------------------------------------------------------
\* Properties of the effects of a card over time

\* no run of the hydrate effect is waiting, on any card
HydrationIdle ==
  \A k \in UnitKeys : comp[k].hydrate = None /\ hyd[k] = NoRun

\* C39: hydration quiesces.  The user acts finitely often; the runs of the
\* hydrate effect and the preview-sync effect that these acts and the
\* captures set off come to an end: from some point on no run of the hydrate
\* effect is waiting any more, so that the effects write no Station Record
\* and change no preview from then on.
C39_HydrationQuiesces == <>[]HydrationIdle

\* a run of the hydrate effect has ended on a card whose capture has saved
\* its picture and not yet shown it: the preview is the restored one, and no
\* further run is waiting
C39_Witness ==
  /\ HydrationIdle
  /\ \E k \in UnitKeys :
       /\ Mounted(k, local, tab, now)
       /\ pipe[k].pc = "finish"
       /\ comp[k].preview # None

----------------------------------------------------------------------------
\* Properties of a save that raises

\* what the two readers answer for a key
ReadersOf(loc, ses, key) ==
  << getImageBlob(loc, ses, key, NoTierFailure).value,
     getImageMetadata(loc, ses, key, NoTierFailure).value >>

C40_RaisedStep ==
  (call'.op = "save" /\ call'.raised)
  => ReadersOf(local', session', call'.key) = ReadersOf(local, session, call'.key)

\* C40: a save that raises leaves the blob store as it was.  After a save
\* that failed on both tiers, get and getMetadata of the key answer what they
\* answered before the call.
C40_RaisedSaveLeavesStore == [][C40_RaisedStep]_vars

====
